---- MODULE Spec2Model ----
(***************************************************************************)
(* Form submission and validation pipeline of the pharmacy website:       *)
(* the Contact section, the Refill, Transfer, Waitlist and Splash          *)
(* (promotional opt-in) modals, and the localStorage waitlist store.       *)
(*                                                                         *)
(* A behaviour follows ONE form instance (variable form, fixed by Init);   *)
(* the five components own disjoint React state, so the product of their   *)
(* behaviours adds nothing.                                                *)
(*                                                                         *)
(* Strings the code inspects character by character (trim, toLowerCase,    *)
(* split, RegExp.test, Number) are sequences of one-character strings.     *)
(* Field error messages are only displayed, so they stay TLA+ strings.     *)
(* API messages go through String.includes in the catch blocks, so they    *)
(* are sequences of words and includes is a contiguous-run test.           *)
(***************************************************************************)
EXTENDS Integers, Sequences, FiniteSets, TLC

\* ------------------------------------------------------------------ bounds
\* pending reset timers (setTimeout callbacks not yet run) per modal
MaxTimers == 1
\* outstanding adapter calls (fetch / mock promise) per form
MaxInflight == 2
\* entries in the persisted waitlist
MaxEntries == 2
\* last value of the millisecond clock Date.now() reads
MaxClock == 1

\* ------------------------------------------------------- character strings
WhiteSpace == {" ", "\t", "\n"}

Digit == {"0", "1", "2", "3", "4", "5", "6", "7", "8", "9"}

Uppers == <<"A", "B", "C", "D", "E", "F", "G", "H", "I", "J", "K", "L", "M",
            "N", "O", "P", "Q", "R", "S", "T", "U", "V", "W", "X", "Y", "Z">>

Lowers == <<"a", "b", "c", "d", "e", "f", "g", "h", "i", "j", "k", "l", "m",
            "n", "o", "p", "q", "r", "s", "t", "u", "v", "w", "x", "y", "z">>

\* String.prototype.trim
RECURSIVE TrimStart(_)
TrimStart(s) ==
  IF s # <<>> /\ Head(s) \in WhiteSpace THEN TrimStart(Tail(s)) ELSE s

RECURSIVE TrimEnd(_)
TrimEnd(s) ==
  IF s # <<>> /\ s[Len(s)] \in WhiteSpace
  THEN TrimEnd(SubSeq(s, 1, Len(s) - 1))
  ELSE s

Trim(s) == TrimEnd(TrimStart(s))

\* String.prototype.toLowerCase / toUpperCase on one character
LowerOf(c) ==
  IF \E i \in 1..Len(Uppers) : Uppers[i] = c
  THEN Lowers[CHOOSE i \in 1..Len(Uppers) : Uppers[i] = c]
  ELSE c

UpperOf(c) ==
  IF \E i \in 1..Len(Lowers) : Lowers[i] = c
  THEN Uppers[CHOOSE i \in 1..Len(Lowers) : Lowers[i] = c]
  ELSE c

ToLowerCase(s) == [i \in 1..Len(s) |-> LowerOf(s[i])]

ToUpperCase(s) == [i \in 1..Len(s) |-> UpperOf(s[i])]

\* ------------------------------------------------------ regular expressions
\* A regular expression is run as a set of positions (index of the next
\* character to read).  Step consumes one character of class C.
Step(s, P, C) == {p + 1 : p \in {q \in P : q <= Len(s) /\ s[q] \in C}}

\* X?  for a one-character X
Opt(s, P, C) == P \cup Step(s, P, C)

\* X{n} for a one-character X
RECURSIVE Rep(_, _, _, _)
Rep(s, P, C, n) == IF n = 0 THEN P ELSE Rep(s, Step(s, P, C), C, n - 1)

\* ^...$ : the match must end after the last character
AtEnd(s, P) == (Len(s) + 1) \in P

\* /\S+@\S+\.\S+/ (not anchored): a non-space before an "@", then a
\* non-empty run of non-spaces, a ".", and one more non-space
TestEmail(s) ==
  \E p \in 2..Len(s) : \E q \in (p + 2)..(Len(s) - 1) :
     /\ s[p] = "@"
     /\ s[p - 1] \notin WhiteSpace
     /\ s[q] = "."
     /\ \A r \in (p + 1)..(q - 1) : s[r] \notin WhiteSpace
     /\ s[q + 1] \notin WhiteSpace

PhoneSep == WhiteSpace \cup {".", "-"}

\* /^(1\s?)?(\(\d{3}\)|\d{3})[\s.\-]?\d{3}[\s.\-]?\d{4}$/
TestUSPhone(s) ==
  LET P1 == {1} \cup Opt(s, Step(s, {1}, {"1"}), WhiteSpace)
      P2 == Step(s, Rep(s, Step(s, P1, {"("}), Digit, 3), {")"})
              \cup Rep(s, P1, Digit, 3)
      P3 == Rep(s, Opt(s, P2, PhoneSep), Digit, 3)
      P4 == Rep(s, Opt(s, P3, PhoneSep), Digit, 4)
  IN  AtEnd(s, P4)

\* /^\(?(\d{3})\)?[-.\s]?(\d{3})[-.\s]?(\d{4})$/
TestWaitlistPhone(s) ==
  LET P1 == Rep(s, Opt(s, {1}, {"("}), Digit, 3)
      P2 == Opt(s, Opt(s, P1, {")"}), PhoneSep)
      P3 == Rep(s, P2, Digit, 3)
      P4 == Rep(s, Opt(s, P3, PhoneSep), Digit, 4)
  IN  AtEnd(s, P4)

\* /^[A-Z]{2}$/
TestStateCode(s) ==
  AtEnd(s, Rep(s, {1}, {Uppers[i] : i \in 1..Len(Uppers)}, 2))

\* /^\d{5}(-\d{4})?$/
TestZip(s) ==
  LET P1 == Rep(s, {1}, Digit, 5)
  IN  AtEnd(s, P1 \cup Rep(s, Step(s, P1, {"-"}), Digit, 4))

\* /^\d{7}$/
TestNCPDP(s) == AtEnd(s, Rep(s, {1}, Digit, 7))

\* ------------------------------------------------------------------ split
\* str.split(sep) for a one-character separator: every separator ends a
\* token, empty tokens are kept
RECURSIVE SplitOn(_, _, _)
SplitOn(s, seps, cur) ==
  IF s = <<>> THEN <<cur>>
  ELSE IF Head(s) \in seps
       THEN <<cur>> \o SplitOn(Tail(s), seps, <<>>)
       ELSE SplitOn(Tail(s), seps, Append(cur, Head(s)))

Split(s, seps) == SplitOn(s, seps, <<>>)

\* str.split(/[\s,]+/): a run of separators is one separator; a leading or
\* trailing run leaves an empty first or last token
RECURSIVE SplitRunsOn(_, _, _, _)
SplitRunsOn(s, seps, cur, inRun) ==
  IF s = <<>> THEN <<cur>>
  ELSE IF Head(s) \in seps
       THEN IF inRun
            THEN SplitRunsOn(Tail(s), seps, cur, TRUE)
            ELSE <<cur>> \o SplitRunsOn(Tail(s), seps, <<>>, TRUE)
       ELSE SplitRunsOn(Tail(s), seps, Append(cur, Head(s)), FALSE)

SplitRuns(s, seps) == SplitRunsOn(s, seps, <<>>, FALSE)

\* ----------------------------------------------------------------- Number
\* value of a run of decimal digits
DigitValue(c) == CHOOSE v \in 0..9 : <<"0", "1", "2", "3", "4", "5", "6", "7", "8", "9">>[v + 1] = c

RECURSIVE DigitsValue(_)
DigitsValue(s) ==
  IF s = <<>> THEN 0
  ELSE 10 * DigitsValue(SubSeq(s, 1, Len(s) - 1)) + DigitValue(s[Len(s)])

AllDigits(s) == \A i \in 1..Len(s) : s[i] \in Digit

\* drop the trailing zeros of a fraction
RECURSIVE StripZeros(_)
StripZeros(s) ==
  IF s # <<>> /\ s[Len(s)] = "0"
  THEN StripZeros(SubSeq(s, 1, Len(s) - 1))
  ELSE s

NaN == [nan |-> TRUE, inf |-> FALSE, neg |-> FALSE, int |-> 0, frac |-> <<>>]

Num(neg, int, frac) == [nan |-> FALSE, inf |-> FALSE, neg |-> neg, int |-> int, frac |-> frac]

\* Infinity and -Infinity
Infinite(neg) == [nan |-> FALSE, inf |-> TRUE, neg |-> neg, int |-> 0, frac |-> <<>>]

\* Number(str) on strings of digits, sign, decimal point, white space and
\* other characters that start no numeric literal: white space is trimmed,
\* the empty string is 0, [+-]digits[.digits] and [+-].digits are decimal
\* numbers, [+-]Infinity is an infinity, everything else is NaN.  (Exponents
\* and hex/octal/binary prefixes are outside the input alphabet of this
\* model.)
NumberOf(str) ==
  LET t    == Trim(str)
      neg  == t # <<>> /\ Head(t) = "-"
      u    == IF t # <<>> /\ Head(t) \in {"-", "+"} THEN Tail(t) ELSE t
      dots == {i \in 1..Len(u) : u[i] = "."}
      dot  == IF dots = {} THEN Len(u) + 1 ELSE CHOOSE i \in dots : \A j \in dots : i <= j
      ip   == SubSeq(u, 1, dot - 1)
      fp   == SubSeq(u, dot + 1, Len(u))
  IN  IF t = <<>> THEN Num(FALSE, 0, <<>>)
      ELSE IF u = <<"I", "n", "f", "i", "n", "i", "t", "y">> THEN Infinite(neg)
      ELSE IF AllDigits(ip) /\ AllDigits(fp) /\ (ip # <<>> \/ fp # <<>>)
           THEN Num(neg, DigitsValue(ip), StripZeros(fp))
           ELSE NaN

IsNaN(n) == n.nan

\* n <= 0 for a Number
NotPositive(n) == ~n.nan /\ (n.neg \/ (~n.inf /\ n.int = 0 /\ n.frac = <<>>))

\* JSON.stringify of a Number member: NaN and the infinities are written as
\* null (<<>>), every other number as itself
JsonNumber(n) == IF n.nan \/ n.inf THEN <<>> ELSE <<n>>

\* ------------------------------------------------------------------ dates
\* Local time is a day number plus the milliseconds since local midnight.
IsLeap(y) == (y % 4 = 0 /\ y % 100 # 0) \/ y % 400 = 0

DaysBeforeYear(y) == 365 * (y - 1) + ((y - 1) \div 4) - ((y - 1) \div 100) + ((y - 1) \div 400)

DaysBeforeMonth(y, m) ==
  <<0, 31, 59, 90, 120, 151, 181, 212, 243, 273, 304, 334>>[m]
    + (IF m > 2 /\ IsLeap(y) THEN 1 ELSE 0)

\* new Date(year, monthIndex, day) at local midnight: months and days out of
\* range carry over, years 0..99 mean 1900..1999
DayNumber(year, monthIndex, day) ==
  LET y0 == IF year >= 0 /\ year <= 99 THEN 1900 + year ELSE year
      y  == y0 + (monthIndex \div 12)
      m  == (monthIndex % 12) + 1
  IN  DaysBeforeYear(y) + DaysBeforeMonth(y, m) + day

InvalidDate == [valid |-> FALSE, day |-> 0, ms |-> 0]

DateAt(day, ms) == [valid |-> TRUE, day |-> day, ms |-> ms]

\* const dateParts = str.split('-').map(Number);
\* new Date(dateParts[0], dateParts[1] - 1, dateParts[2])
ParseLocalDate(str) ==
  LET parts == Split(str, {"-"})
      n(i)  == IF i <= Len(parts) THEN NumberOf(parts[i]) ELSE NaN
  IN  IF IsNaN(n(1)) \/ IsNaN(n(2)) \/ IsNaN(n(3))
      THEN InvalidDate
      ELSE DateAt(DayNumber(n(1).int, n(2).int - 1, n(3).int), 0)

\* const today = new Date(); today.setHours(0, 0, 0, 0)
Today(now) == DateAt(DayNumber(now.y, now.m - 1, now.d), 0)

\* const twoYearsAgo = new Date(); twoYearsAgo.setFullYear(getFullYear() - 2)
TwoYearsAgo(now) == DateAt(DayNumber(now.y - 2, now.m - 1, now.d), now.ms)

\* DateLess with <= in place of <
DateLessOrEqual(a, b) ==
  a.valid /\ b.valid /\ (a.day < b.day \/ (a.day = b.day /\ a.ms <= b.ms))

\* a < b on Date objects; a comparison with an Invalid Date is false
DateLess(a, b) ==
  a.valid /\ b.valid /\ (a.day < b.day \/ (a.day = b.day /\ a.ms < b.ms))

\* ------------------------------------------------------------ form records
Forms == {"contact", "refill", "transfer", "waitlist", "splash"}

\* the components that take isOpen/onClose props
Modals == {"refill", "transfer", "waitlist", "splash"}

\* field names in DOM order
FieldOrder(f) ==
  CASE f = "contact"  -> <<"name", "phone", "email", "reason", "message", "consent">>
    [] f = "refill"   -> <<"patientName", "dob", "phone", "email",
                           "prescriptionNumbers", "medicationNames",
                           "preferredService", "notes", "consent">>
    [] f = "transfer" -> <<"rxNumber", "rxFillDate", "transferToPharmacyName",
                           "transferToPharmacyPhone", "transferToPharmacyAddress1",
                           "transferToPharmacyAddress2", "transferToPharmacyCity",
                           "transferToPharmacyState", "transferToPharmacyZip",
                           "transferToPharmacyNCPDP", "transferRxRemark", "consent">>
    [] f = "waitlist" -> <<"name", "email", "phone">>
    [] f = "splash"   -> <<"email">>

Fields(f) == {FieldOrder(f)[i] : i \in 1..Len(FieldOrder(f))}

\* the inputs that carry the HTML attribute required
RequiredInputs(f) ==
  CASE f = "contact"  -> {"name", "phone", "email", "consent"}
    [] f = "refill"   -> {"patientName", "dob", "phone", "prescriptionNumbers", "consent"}
    [] f = "transfer" -> {"rxNumber", "rxFillDate", "transferToPharmacyName",
                          "transferToPharmacyPhone", "transferToPharmacyAddress1",
                          "transferToPharmacyCity", "transferToPharmacyState",
                          "transferToPharmacyZip", "consent"}
    [] f = "waitlist" -> {"name", "email"}
    [] f = "splash"   -> {"email"}

\* the useState initial value, which is also what the reset timer restores
DefaultFormData(f) ==
  CASE f = "contact"  -> [name |-> <<>>, phone |-> <<>>, email |-> <<>>,
                          reason |-> "general", message |-> <<>>, consent |-> FALSE]
    [] f = "refill"   -> [patientName |-> <<>>, dob |-> <<>>, phone |-> <<>>,
                          email |-> <<>>, prescriptionNumbers |-> <<>>,
                          medicationNames |-> <<>>, preferredService |-> "pickup",
                          notes |-> <<>>, consent |-> FALSE]
    [] f = "transfer" -> [rxNumber |-> <<>>, rxFillDate |-> <<>>,
                          transferToPharmacyName |-> <<>>,
                          transferToPharmacyAddress1 |-> <<>>,
                          transferToPharmacyAddress2 |-> <<>>,
                          transferToPharmacyCity |-> <<>>,
                          transferToPharmacyState |-> <<>>,
                          transferToPharmacyZip |-> <<>>,
                          transferToPharmacyPhone |-> <<>>,
                          transferToPharmacyNCPDP |-> <<>>,
                          transferRxRemark |-> <<>>, consent |-> FALSE]
    [] f = "waitlist" -> [name |-> <<>>, phone |-> <<>>, email |-> <<>>]
    [] f = "splash"   -> [email |-> <<>>]

\* setErrors({}) / useState<FormErrors>({})
NoErrors == [k \in {} |-> ""]

\* no message for a field
NoError == ""

\* the error map a validator returns: the fields that got a message
ErrorMap(f, msgs) == [k \in {g \in Fields(f) : msgs[g] # NoError} |-> msgs[k]]

\* HasErrors with the test left out: handleSubmit goes on whatever validate
\* returned
HasErrorsIgnored(validationErrors) == FALSE

\* Object.keys(validationErrors).length > 0
HasErrors(validationErrors) == DOMAIN validationErrors # {}

\* ------------------------------------------------------- field validators
\* ConsentError with the consent test left out of validate
ConsentErrorSkipped(fd, message) == NoError

\* if (!formData.consent) newErrors.consent = message
ConsentError(fd, message) == IF ~fd.consent THEN message ELSE NoError

\* Contact.validate
ContactFieldError(fd, k) ==
  CASE k = "name" ->
         IF Trim(fd.name) = <<>> THEN "Full name is required." ELSE NoError
    [] k = "email" ->
         IF Trim(fd.email) = <<>> THEN "Email address is required."
         ELSE IF ~TestEmail(fd.email) THEN "Please enter a valid email address."
         ELSE NoError
    [] k = "phone" ->
         IF Trim(fd.phone) = <<>> THEN "Phone number is required."
         ELSE IF ~TestUSPhone(fd.phone) THEN "Please enter a valid US phone number."
         ELSE NoError
    [] k = "message" ->
         IF fd.reason \in {"new", "transfer", "refill"} /\ Trim(fd.message) = <<>>
         THEN "Please provide more details for your request."
         ELSE IF Len(Trim(fd.message)) > 500
         THEN "Message must be less than 500 characters."
         ELSE NoError
    [] k = "consent" ->
         ConsentError(fd, "You must acknowledge the statement to proceed.")
    [] OTHER -> NoError

ContactValidate(fd) == 
  ErrorMap("contact", [k \in Fields("contact") |-> ContactFieldError(fd, k)])

\* RefillRequestModal.validate
RefillFieldError(fd, now, k) ==
  CASE k = "patientName" ->
         IF Trim(fd.patientName) = <<>> THEN "Patient full name is required."
         ELSE NoError
    [] k = "dob" ->
         IF Trim(fd.dob) = <<>> THEN "Date of birth is required."
         ELSE IF DateLess(Today(now), ParseLocalDate(fd.dob))
         THEN "Date of birth cannot be in the future."
         ELSE NoError
    [] k = "phone" ->
         IF Trim(fd.phone) = <<>> THEN "Phone number is required."
         ELSE IF ~TestUSPhone(fd.phone) THEN "Please enter a valid US phone number."
         ELSE NoError
    [] k = "email" ->
         IF Trim(fd.email) # <<>> /\ ~TestEmail(fd.email)
         THEN "Please enter a valid email address."
         ELSE NoError
    [] k = "prescriptionNumbers" ->
         IF Trim(fd.prescriptionNumbers) = <<>>
         THEN "At least one prescription number is required."
         ELSE IF Len(Trim(fd.prescriptionNumbers)) > 1000
         THEN "Prescription numbers field is too long."
         ELSE LET rxNumbers == SelectSeq(SplitRuns(fd.prescriptionNumbers, WhiteSpace \cup {","}),
                                         LAMBDA n : Trim(n) # <<>>)
              IN  IF Len(rxNumbers) = 0
                     \/ \E i \in 1..Len(rxNumbers) : IsNaN(NumberOf(rxNumbers[i]))
                  THEN "Please enter valid, numeric prescription number(s)."
                  ELSE NoError
    [] k = "medicationNames" ->
         IF Len(Trim(fd.medicationNames)) > 500
         THEN "Medication names cannot exceed 500 characters."
         ELSE NoError
    [] k = "notes" ->
         IF Len(Trim(fd.notes)) > 500 THEN "Notes cannot exceed 500 characters."
         ELSE NoError
    [] k = "consent" ->
         ConsentError(fd, "You must acknowledge the statement to proceed.")
    [] OTHER -> NoError

RefillValidate(fd, now) == 
  ErrorMap("refill", [k \in Fields("refill") |-> RefillFieldError(fd, now, k)])

\* TransferRequestModal.validate
TransferFieldError(fd, now, k) ==
  CASE k = "rxNumber" ->
         IF Trim(fd.rxNumber) = <<>> \/ IsNaN(NumberOf(fd.rxNumber))
         THEN "A valid prescription number is required."
         ELSE IF NotPositive(NumberOf(fd.rxNumber))
         THEN "Prescription number must be a positive number."
         ELSE NoError
    [] k = "rxFillDate" ->
         IF Trim(fd.rxFillDate) = <<>> THEN "Last fill date is required."
         ELSE IF DateLess(ParseLocalDate(fd.rxFillDate), TwoYearsAgo(now))
         THEN "Fill date cannot be more than 2 years ago."
         ELSE IF DateLess(Today(now), ParseLocalDate(fd.rxFillDate))
         THEN "Fill date cannot be in the future."
         ELSE NoError
    [] k = "transferToPharmacyName" ->
         IF Trim(fd.transferToPharmacyName) = <<>>
         THEN "Destination pharmacy name is required." ELSE NoError
    [] k = "transferToPharmacyAddress1" ->
         IF Trim(fd.transferToPharmacyAddress1) = <<>>
         THEN "Address Line 1 is required." ELSE NoError
    [] k = "transferToPharmacyCity" ->
         IF Trim(fd.transferToPharmacyCity) = <<>> THEN "City is required." ELSE NoError
    [] k = "transferToPharmacyState" ->
         IF Trim(fd.transferToPharmacyState) = <<>> THEN "State is required."
         ELSE IF ~TestStateCode(ToUpperCase(Trim(fd.transferToPharmacyState)))
         THEN "Please use 2-letter state code (e.g., OH)."
         ELSE NoError
    [] k = "transferToPharmacyZip" ->
         IF Trim(fd.transferToPharmacyZip) = <<>> THEN "ZIP code is required."
         ELSE IF ~TestZip(fd.transferToPharmacyZip)
         THEN "Please enter a valid 5-digit ZIP code."
         ELSE NoError
    [] k = "transferToPharmacyPhone" ->
         IF Trim(fd.transferToPharmacyPhone) = <<>>
         THEN "Pharmacy phone number is required."
         ELSE IF ~TestUSPhone(fd.transferToPharmacyPhone)
         THEN "Please enter a valid US phone number."
         ELSE NoError
    [] k = "transferToPharmacyNCPDP" ->
         IF Trim(fd.transferToPharmacyNCPDP) # <<>>
            /\ ~TestNCPDP(Trim(fd.transferToPharmacyNCPDP))
         THEN "NCPDP number must be 7 digits." ELSE NoError
    [] k = "consent" ->
         ConsentError(fd, "You must authorize this transfer request.")
    [] OTHER -> NoError

TransferValidate(fd, now) == 
  ErrorMap("transfer", [k \in Fields("transfer") |-> TransferFieldError(fd, now, k)])

\* SplashModal.validate
SplashFieldError(fd, k) ==
  CASE k = "email" ->
         IF Trim(fd.email) = <<>> THEN "Email address is required."
         ELSE IF ~TestEmail(fd.email) THEN "Please enter a valid email address."
         ELSE NoError
    [] OTHER -> NoError

SplashValidate(fd) == 
  ErrorMap("splash", [k \in Fields("splash") |-> SplashFieldError(fd, k)])

\* --------------------------------------------------- waitlist store (localStorage)
\* getWaitlistEntries: the parsed list under WAITLIST_STORAGE_KEY, [] when the
\* key is absent.  The stored value is only ever written by saveWaitlistEntry
\* or removed by clearWaitlistData, so it always parses.
getWaitlistEntries(stored) == stored

\* isEmailOnWaitlist
isEmailOnWaitlist(stored, email) ==
  \E i \in 1..Len(getWaitlistEntries(stored)) :
     ToLowerCase(getWaitlistEntries(stored)[i].email) = ToLowerCase(email)

\* WaitlistModal.validate
WaitlistFieldError(fd, stored, k) ==
  CASE k = "name" ->
         IF Trim(fd.name) = <<>> THEN "Full name is required."
         ELSE IF Len(Trim(fd.name)) > 100 THEN "Full name cannot exceed 100 characters."
         ELSE NoError
    [] k = "email" ->
         IF Trim(fd.email) = <<>> THEN "Email address is required."
         ELSE IF ~TestEmail(fd.email) THEN "Please enter a valid email address."
         ELSE IF isEmailOnWaitlist(stored, fd.email)
         THEN "This email address is already on the waitlist."
         ELSE NoError
    [] k = "phone" ->
         IF Trim(fd.phone) # <<>> /\ ~TestWaitlistPhone(fd.phone)
         THEN "Please enter a valid phone number."
         ELSE NoError
    [] OTHER -> NoError

WaitlistValidate(fd, stored) == 
  ErrorMap("waitlist", [k \in Fields("waitlist") |-> WaitlistFieldError(fd, stored, k)])

\* Date.now().toString(): the decimal digits of the clock value
RECURSIVE ToDigits(_)
ToDigits(n) ==
  IF n < 10 THEN <<(<<"0", "1", "2", "3", "4", "5", "6", "7", "8", "9">>)[n + 1]>>
  ELSE Append(ToDigits(n \div 10), (<<"0", "1", "2", "3", "4", "5", "6", "7", "8", "9">>)[(n % 10) + 1])

\* const newEntry = { ...entry, id: Date.now().toString(),
\*                    timestamp: new Date().toISOString(), status: 'active' }
NewWaitlistEntry(entry, idClock, stampClock) ==
  [name |-> entry.name, email |-> entry.email, phone |-> entry.phone,
   id |-> ToDigits(idClock), timestamp |-> stampClock, status |-> "active"]

\* HasExistingEntry comparing the emails as they are, without toLowerCase()
HasExistingEntryExact(stored, entry) ==
  \E i \in 1..Len(getWaitlistEntries(stored)) :
     getWaitlistEntries(stored)[i].email = entry.email

\* the duplicate test of saveWaitlistEntry
HasExistingEntry(stored, entry) ==
  \E i \in 1..Len(getWaitlistEntries(stored)) :
     ToLowerCase(getWaitlistEntries(stored)[i].email) = ToLowerCase(entry.email)

\* saveWaitlistEntry: the new stored list and whether the call threw.
\* It throws on a duplicate email and when localStorage.setItem throws
\* (setItemOk = FALSE); in both cases the stored list is left as it was.
saveWaitlistEntry(stored, entry, idClock, stampClock, setItemOk) ==
  IF HasExistingEntry(stored, entry) \/ ~setItemOk
  THEN [threw |-> TRUE, stored |-> stored]
  ELSE [threw |-> FALSE,
        stored |-> Append(getWaitlistEntries(stored),
                          NewWaitlistEntry(entry, idClock, stampClock))]

\* ------------------------------------------------------------------ state
VARIABLES
  form,      \* which component this behaviour follows
  isOpen,    \* the isOpen prop (TRUE throughout for the Contact section)
  formData,  \* useState formData
  errors,    \* useState errors, as the map of fields with a truthy message
  status,    \* useState status
  apiError,  \* useState apiError: <<>> is null, <<m>> the message m
  timers,    \* reset callbacks scheduled by setTimeout(..., 300), not yet run
  inflight,  \* adapter calls awaited by a handleSubmit, oldest first
  env,       \* the process.env names that are defined to a non-empty value
  stored,    \* localStorage[WAITLIST_STORAGE_KEY], parsed
  clock,     \* last value the millisecond clock returned
  now        \* local date and time of day validation runs at

vars == <<form, isOpen, formData, errors, status, apiError, timers, inflight,
          env, stored, clock, now>>

\* errors[k] is cleared by writing undefined, and the code only ever reads
\* errors[k] for truthiness, so a cleared key and an absent key are the same
\* entry of the map.
ClearError(errs, k) == [j \in (DOMAIN errs) \ {k} |-> errs[j]]

Null == <<>>

Some(m) == <<m>>

\* ------------------------------------------------------------- user inputs
\* The values a user types.  Text is typed top to bottom: an input can be
\* changed once every required input above it holds a value, and text is
\* replaced, not erased.  This bounds the user, not the handlers.
NameJo == <<"J", "o", " ", "L", "i">>

PhoneOk == <<"6", "1", "4", "-", "3", "4", "9", "-", "5", "1", "4", "0">>

PhoneBad == <<"1", "2", "3", "4", "5">>

EmailLower == <<"a", "@", "x", ".", "c">>

EmailUpper == <<"A", "@", "X", ".", "c">>

EmailPadded == <<" ", "a", "@", "x", ".", "c">>

EmailOther == <<"b", "@", "x", ".", "c">>

EmailBad == <<"a", "b">>

DatePast == <<"2", "0", "2", "4", "-", "0", "3", "-", "0", "1">>

DateFuture == <<"2", "0", "2", "4", "-", "0", "4", "-", "0", "1">>

DateOld == <<"2", "0", "2", "0", "-", "0", "1", "-", "0", "1">>

RxOk == <<"1", "2", ",", " ", "3", "4">>

RxBad == <<"1", "2", ",", " ", "a", "b">>

TextHi == <<"H", "i">>

NowValues == {[y |-> 2024, m |-> 3, d |-> 15, ms |-> 1]}

Inputs(f, k) ==
  CASE f = "contact" ->
         (CASE k = "name" -> {NameJo}
            [] k = "phone" -> {PhoneOk, PhoneBad}
            [] k = "email" -> {EmailLower, EmailBad}
            [] k = "reason" -> {"general", "new"}
            [] k = "message" -> {TextHi}
            [] k = "consent" -> BOOLEAN)
    [] f = "refill" ->
         (CASE k = "patientName" -> {NameJo}
            [] k = "dob" -> {DatePast, DateFuture}
            [] k = "phone" -> {PhoneOk}
            [] k = "email" -> {}
            [] k = "prescriptionNumbers" -> {RxOk, RxBad}
            [] k = "medicationNames" -> {}
            [] k = "preferredService" -> {"pickup", "delivery"}
            [] k = "notes" -> {}
            [] k = "consent" -> BOOLEAN)
    [] f = "transfer" ->
         (CASE k = "rxNumber" -> {<<"7">>, <<"0">>}
            [] k = "rxFillDate" -> {DatePast, DateOld}
            [] k = "transferToPharmacyName" -> {TextHi}
            [] k = "transferToPharmacyPhone" -> {PhoneOk}
            [] k = "transferToPharmacyAddress1" -> {TextHi}
            [] k = "transferToPharmacyAddress2" -> {}
            [] k = "transferToPharmacyCity" -> {TextHi}
            [] k = "transferToPharmacyState" -> {<<"o", "h">>}
            [] k = "transferToPharmacyZip" -> {<<"4", "3", "2", "1", "5">>}
            [] k = "transferToPharmacyNCPDP" -> {<<"1", "2">>}
            [] k = "transferRxRemark" -> {}
            [] k = "consent" -> BOOLEAN)
    [] f = "waitlist" ->
         (CASE k = "name" -> {NameJo}
            [] k = "email" -> {EmailLower, EmailUpper, EmailPadded, EmailOther, EmailBad}
            [] k = "phone" -> {PhoneBad})
    [] f = "splash" ->
         (CASE k = "email" -> {EmailLower, EmailBad})

\* position of input k in the form
FieldIndex(f, k) == CHOOSE i \in 1..Len(FieldOrder(f)) : FieldOrder(f)[i] = k

\* every required input above k holds a value
FilledAbove(f, fd, k) ==
  \A i \in 1..(FieldIndex(f, k) - 1) :
     FieldOrder(f)[i] \in RequiredInputs(f)
        => fd[FieldOrder(f)[i]] # DefaultFormData(f)[FieldOrder(f)[i]]

\* ------------------------------------------------------------ construction
Credentials == {"BESTRX_USERNAME", "BESTRX_API_KEY", "BESTRX_PASSWORD", "BESTRX_PHARMACY_NUMBER"}

\* the credentials a form's handleSubmit reads
CredentialsRead(f) ==
  CASE f = "refill" -> {"BESTRX_USERNAME", "BESTRX_API_KEY", "BESTRX_PHARMACY_NUMBER"}
    [] f = "transfer" -> {"BESTRX_USERNAME", "BESTRX_PASSWORD", "BESTRX_PHARMACY_NUMBER"}
    [] OTHER -> {}

\* App mounts every modal closed, so the reset effect runs once at mount and
\* schedules a first timer; the Contact section has no such effect.
Init ==
  /\ form \in Forms
  /\ isOpen = (form \notin Modals)
  /\ formData = DefaultFormData(form)
  /\ errors = NoErrors
  /\ status = "idle"
  /\ apiError = Null
  /\ timers = IF form \in Modals THEN 1 ELSE 0
  /\ inflight = <<>>
  /\ env \in {Credentials} \cup {Credentials \ {c} : c \in CredentialsRead(form)}
  /\ stored = <<>>
  /\ clock = 0
  /\ now \in NowValues

\* ---------------------------------------------------------- modal lifecycle
\* what the component renders: nothing while closed, the confirmation
\* instead of the form once a modal has succeeded
FormRendered == isOpen /\ (form \in Modals => status # "success")

\* the submit button is disabled while status is 'submitting'
SubmitEnabled == FormRendered /\ status # "submitting"

\* handleOpen...Modal in App: setIs...ModalOpen(true); the effect does nothing
OpenModal ==
  /\ form \in Modals
  /\ ~isOpen
  /\ isOpen' = TRUE
  /\ UNCHANGED <<form, formData, errors, status, apiError, timers, inflight,
                 env, stored, clock, now>>

\* onClose: setIs...ModalOpen(false); the effect then calls setTimeout(reset, 300)
CloseModal ==
  /\ form \in Modals
  /\ isOpen
  /\ timers < MaxTimers
  /\ isOpen' = FALSE
  /\ timers' = timers + 1
  /\ UNCHANGED <<form, formData, errors, status, apiError, inflight,
                 env, stored, clock, now>>

\* the setTimeout callback of the reset effect
ResetTimerFires ==
  /\ timers > 0
  /\ timers' = timers - 1
  /\ formData' = DefaultFormData(form)
  /\ status' = "idle"
  /\ errors' = NoErrors
  /\ apiError' = Null
  /\ UNCHANGED <<form, isOpen, inflight, env, stored, clock, now>>

\* handleChange that empties the whole error map, as SplashModal's does
handleChangeClearingAll(k, v) ==
  /\ form \in {"contact", "refill", "transfer", "waitlist"}
  /\ FormRendered
  /\ formData' = [formData EXCEPT ![k] = v]
  /\ errors' = IF k \in DOMAIN errors THEN NoErrors ELSE errors
  /\ UNCHANGED <<form, isOpen, status, apiError, timers, inflight, env, stored,
                 clock, now>>

\* handleChange of Contact, Refill, Transfer and Waitlist
handleChange(k, v) ==
  /\ form \in {"contact", "refill", "transfer", "waitlist"}
  /\ FormRendered
  /\ formData' = [formData EXCEPT ![k] = v]
  /\ errors' = IF k \in DOMAIN errors THEN ClearError(errors, k) ELSE errors
  /\ UNCHANGED <<form, isOpen, status, apiError, timers, inflight, env, stored,
                 clock, now>>

\* SplashModal.handleChange: setErrors({}) when errors.email is set
SplashHandleChange(k, v) ==
  /\ form = "splash"
  /\ FormRendered
  /\ formData' = [formData EXCEPT ![k] = v]
  /\ errors' = IF "email" \in DOMAIN errors THEN NoErrors ELSE errors
  /\ UNCHANGED <<form, isOpen, status, apiError, timers, inflight, env, stored,
                 clock, now>>

\* the user changes one input
UserEdits ==
  \E k \in Fields(form) : \E v \in Inputs(form, k) :
     /\ FilledAbove(form, formData, k)
     /\ v # formData[k]
     /\ \/ handleChange(k, v)
        \/ SplashHandleChange(k, v)

\* ------------------------------------------------------------ API messages
\* A message is the sequence of its words and punctuation marks.
MsgServiceConfiguration ==
  <<"Service", "configuration", "error", ".", "Please", "contact", "support", ".">>

MsgNoValidRxNumber ==
  <<"Please", "enter", "at", "least", "one", "valid", "prescription", "number", ".">>

MsgRefillProcessing ==
  <<"An", "error", "occurred", "while", "processing", "your", "refill", "request", ".">>

MsgInvalidPharmacyConfiguration ==
  <<"Invalid", "pharmacy", "configuration", ".", "Please", "contact", "support", ".">>

MsgLastNameRequired == <<"Patient", "last", "name", "is", "required", ".">>

MsgValidDob == <<"Please", "enter", "a", "valid", "date", "of", "birth", ".">>

MsgInvalidTimestamp == <<"Invalid", "request", "timestamp", ".", "Please", "try", "again", ".">>

MsgOneRxNumber == <<"Please", "enter", "at", "least", "one", "prescription", "number", ".">>

MsgInvalidDeliveryOption == <<"Invalid", "delivery", "option", "selected", ".">>

MsgInvalidRequestSource == <<"Invalid", "request", "source", ".", "Please", "try", "again", ".">>

MsgRxOrPatientRequired == <<"Prescription", "number", "or", "patient", "ID", "is", "required", ".">>

MsgInvalidRequestData ==
  <<"Invalid", "request", "data", ".", "Please", "check", "your", "information", ".">>

MsgServiceAuthFailed ==
  <<"Service", "authentication", "failed", ".", "Please", "contact", "support", ".">>

MsgPharmacyNotAuthorized ==
  <<"Pharmacy", "not", "authorized", "for", "this", "service", ".", "Please", "contact",
    "support", ".">>

MsgAccessDenied == <<"Access", "denied", ".", "Please", "contact", "support", ".">>

MsgTemporarilyUnavailable ==
  <<"The", "pharmacy", "system", "is", "temporarily", "unavailable", ".", "Please", "try",
    "again", "later", ".">>

MsgUnexpectedResponse ==
  <<"Unexpected", "response", "from", "pharmacy", "system", ".", "Please", "contact",
    "support", ".">>

MsgCouldNotConnect == <<"Could", "not", "connect", "to", "the", "pharmacy", "system", ".">>

MsgNetworkFailed ==
  <<"Network", "connection", "failed", ".", "Please", "check", "your", "internet",
    "connection", "and", "try", "again", ".">>

MsgUnexpectedError ==
  <<"An", "unexpected", "error", "occurred", ".", "Please", "try", "again", "or", "contact",
    "support", ".">>

MsgTransferProcessing ==
  <<"An", "error", "occurred", "while", "processing", "your", "transfer", "request", ".">>

MsgPharmacyOrNcpdp == <<"Please", "provide", "pharmacy", "number", "or", "NCPDP", "number", ".">>

MsgValidFillDate == <<"Please", "provide", "valid", "fill", "date", ".">>

MsgFillDateFuture == <<"Fill", "date", "cannot", "be", "in", "the", "future", ".">>

MsgValidRxNumber == <<"Please", "provide", "valid", "RX", "number", ".">>

MsgAuthenticationFailed == <<"Authentication", "failed", ".", "Please", "contact", "support", ".">>

MsgSendingTransfer ==
  <<"Error", "while", "sending", "transfer", "Rx", "request", ".", "Please", "try", "again",
    "or", "contact", "support", ".">>

MsgTransferValidationFailed == <<"Transfer", "request", "validation", "failed", ".">>

MsgJsonSyntaxError == <<"Unexpected", "token", "<", "in", "JSON", "at", "position", "0">>

MsgTypeError == <<"Cannot", "read", "properties", "of", "null">>

MsgFailedToFetch == <<"Failed", "to", "fetch">>

MsgLoadFailed == <<"Load", "failed">>

MsgFirefoxNetworkError ==
  <<"NetworkError", "when", "attempting", "to", "fetch", "resource", ".">>

\* haystack.includes(needle), on whole words
Includes(haystack, needle) ==
  \E i \in 1..(Len(haystack) - Len(needle) + 1) :
     SubSeq(haystack, i, i + Len(needle) - 1) = needle

\* ----------------------------------------------------------- Contact, Splash
\* the awaited promise of the mock API call:
\* await new Promise(resolve => setTimeout(resolve, 1000))
MockCall == [kind |-> "mock"]

\* inflight without its i-th element
RemoveAt(q, i) == SubSeq(q, 1, i - 1) \o SubSeq(q, i + 1, Len(q))

\* Contact.handleSubmit up to the await
ContactHandleSubmit ==
  /\ form = "contact"
  /\ SubmitEnabled
  /\ LET validationErrors == ContactValidate(formData)
     IN  IF HasErrors(validationErrors)
         THEN /\ errors' = validationErrors
              /\ UNCHANGED <<status, inflight>>
         ELSE /\ Len(inflight) < MaxInflight
              /\ status' = "submitting"
              /\ inflight' = Append(inflight, MockCall)
              /\ UNCHANGED errors
  /\ UNCHANGED <<form, isOpen, formData, apiError, timers, env, stored, clock, now>>

\* Contact.handleSubmit after the await: the mock promise always resolves
ContactSubmitResolves ==
  /\ form = "contact"
  /\ inflight # <<>>
  /\ inflight' = Tail(inflight)
  /\ status' = "success"
  /\ errors' = NoErrors
  /\ formData' = DefaultFormData("contact")
  /\ UNCHANGED <<form, isOpen, apiError, timers, env, stored, clock, now>>

\* SplashModal.handleSubmit up to the await
SplashHandleSubmit ==
  /\ form = "splash"
  /\ SubmitEnabled
  /\ LET validationErrors == SplashValidate(formData)
     IN  IF HasErrors(validationErrors)
         THEN /\ errors' = validationErrors
              /\ UNCHANGED <<status, inflight>>
         ELSE /\ Len(inflight) < MaxInflight
              /\ status' = "submitting"
              /\ inflight' = Append(inflight, MockCall)
              /\ UNCHANGED errors
  /\ UNCHANGED <<form, isOpen, formData, apiError, timers, env, stored, clock, now>>

\* SplashModal.handleSubmit after the await
SplashSubmitResolves ==
  /\ form = "splash"
  /\ inflight # <<>>
  /\ inflight' = Tail(inflight)
  /\ status' = "success"
  /\ errors' = NoErrors
  /\ UNCHANGED <<form, isOpen, formData, apiError, timers, env, stored, clock, now>>

\* ------------------------------------------------------------------ Waitlist
\* the entry handleSubmit passes to saveWaitlistEntry
WaitlistEntryOf(fd) ==
  [name |-> Trim(fd.name), email |-> Trim(fd.email), phone |-> Trim(fd.phone)]

\* WaitlistModal.handleSubmit: no await, so the handler runs to its end in
\* one step.  setStatus('submitting') is followed in the same step by
\* setStatus('success') or, when saveWaitlistEntry throws, setStatus('error').
\* Date.now() and new Date() read the clock in that order; setItem fails
\* when the store is full.
WaitlistHandleSubmit ==
  /\ form = "waitlist"
  /\ SubmitEnabled
  /\ LET validationErrors == WaitlistValidate(formData, stored)
     IN  IF HasErrors(validationErrors)
         THEN /\ errors' = validationErrors
              /\ UNCHANGED <<status, stored, clock>>
         ELSE \E idClock \in clock..(IF clock < MaxClock THEN clock + 1 ELSE clock) :
              \E stampClock \in idClock..(IF idClock < MaxClock THEN idClock + 1 ELSE idClock) :
              \E setItemOk \in {ok \in BOOLEAN : ok => Len(stored) < MaxEntries} :
                LET saved == saveWaitlistEntry(stored, WaitlistEntryOf(formData),
                                               idClock, stampClock, setItemOk)
                IN  /\ stored' = saved.stored
                    /\ clock' = IF HasExistingEntry(stored, WaitlistEntryOf(formData))
                                THEN clock ELSE stampClock
                    /\ status' = IF saved.threw THEN "error" ELSE "success"
                    /\ errors' = IF saved.threw THEN errors ELSE NoErrors
  /\ UNCHANGED <<form, isOpen, formData, apiError, timers, inflight, env, now>>

\* window.waitlistUtils.clearData(): localStorage.removeItem(WAITLIST_STORAGE_KEY)
clearWaitlistData ==
  /\ form = "waitlist"
  /\ stored # <<>>
  /\ stored' = <<>>
  /\ UNCHANGED <<form, isOpen, formData, errors, status, apiError, timers,
                 inflight, env, clock, now>>

\* ------------------------------------------------ what an awaited fetch yields
\* An optional JSON member is <<>> when absent (or null) and <<v>> when it
\* holds v.  A body is invalid JSON, the JSON value null, or an object.
EmptyObject ==
  [json |-> "object", ErrorCode |-> <<>>, Code |-> <<>>, Message |-> <<>>,
   RxInRefillResponse |-> <<>>, IsValid |-> <<>>, Data |-> <<>>, Messages |-> <<>>]

InvalidJson == [EmptyObject EXCEPT !.json = "invalid"]

JsonNull == [EmptyObject EXCEPT !.json = "null"]

\* fetch rejected: the value thrown into the catch block
Rejected(isError, message) ==
  [kind |-> "rejected", isError |-> isError, message |-> message,
   http |-> 0, body |-> EmptyObject]

\* fetch resolved with a Response
Responded(http, body) ==
  [kind |-> "responded", isError |-> FALSE, message |-> <<>>,
   http |-> http, body |-> body]

\* new Error(message), TypeError, SyntaxError
ErrorOf(message) == [isError |-> TRUE, message |-> message]

\* response.ok
ResponseOk(o) == o.http >= 200 /\ o.http <= 299

\* a || b on optional strings: the empty string is falsy too
OrElse(a, b) == IF a # <<>> /\ a[1] # "" THEN a ELSE b

\* a || b on optional texts
OrElseText(a, b) == IF a # <<>> /\ a[1] # <<>> THEN a ELSE b

\* what handleSubmit does once the awaited call has settled
Succeeded == [status |-> "success", apiError |-> Null]

Failed(message) == [status |-> "error", apiError |-> Some(message)]

\* ------------------------------------------------------------------- Refill
\* CredentialsMissing with && in place of ||: only a build that defines none
\* of the credentials is turned away
CredentialsAllMissing(f, e) == \A c \in CredentialsRead(f) : c \notin e

\* !username || !apiKey || !pharmacyNumber  (Refill)
\* !username || !password || !pharmacyNumber  (Transfer)
CredentialsMissing(f, e) == \E c \in CredentialsRead(f) : c \notin e

\* fullName.trim().split(' ').pop() || ''
getLastName(fullName) ==
  LET parts == Split(Trim(fullName), {" "}) IN parts[Len(parts)]

\* str.replace(/\D/g, '')
DigitsOnly(s) == SelectSeq(s, LAMBDA c : c \in Digit)

\* formData.prescriptionNumbers.split(/[\s,]+/)
\*   .filter(num => num.trim() !== '' && !isNaN(Number(num)))
\*   .map(num => ({ RxNo: Number(num.trim()) }))
RefillRxNumbers(fd) ==
  LET kept == SelectSeq(SplitRuns(fd.prescriptionNumbers, WhiteSpace \cup {","}),
                        LAMBDA num : Trim(num) # <<>> /\ ~IsNaN(NumberOf(num)))
  IN  [i \in 1..Len(kept) |-> [RxNo |-> NumberOf(Trim(kept[i]))]]

\* `${medicationNames ? `Medications: ${medicationNames}. ` : ''}${notes}`
RefillNotes(fd) ==
  (IF fd.medicationNames # <<>>
   THEN <<"M", "e", "d", "i", "c", "a", "t", "i", "o", "n", "s", ":", " ">>
          \o fd.medicationNames \o <<".", " ">>
   ELSE <<>>) \o fd.notes

\* the payload with the pickup code whatever the preferred service
RefillPayloadAlwaysPickup(fd, time) ==
  [userName |-> "BESTRX_USERNAME",
   APIKey |-> "BESTRX_API_KEY",
   PharmacyNumber |-> "BESTRX_PHARMACY_NUMBER",
   LastName |-> getLastName(fd.patientName),
   DOB |-> fd.dob,
   Phone |-> DigitsOnly(fd.phone),
   RequestDateTime |-> time,
   DeliveryOption |-> 1,
   RequestType |-> 1,
   RxInRefillRequest |->
     [i \in 1..Len(RefillRxNumbers(fd)) |-> [RxNo |-> JsonNumber(RefillRxNumbers(fd)[i].RxNo)]],
   Notes |-> RefillNotes(fd)]

\* the request body of SendRefillRequest: JSON.stringify(payload)
RefillPayload(fd, time) ==
  [userName |-> "BESTRX_USERNAME",
   APIKey |-> "BESTRX_API_KEY",
   PharmacyNumber |-> "BESTRX_PHARMACY_NUMBER",
   LastName |-> getLastName(fd.patientName),
   DOB |-> fd.dob,
   Phone |-> DigitsOnly(fd.phone),
   RequestDateTime |-> time,
   DeliveryOption |-> IF fd.preferredService = "pickup" THEN 1 ELSE 2,
   RequestType |-> 1,
   RxInRefillRequest |->
     [i \in 1..Len(RefillRxNumbers(fd)) |-> [RxNo |-> JsonNumber(RefillRxNumbers(fd)[i].RxNo)]],
   Notes |-> RefillNotes(fd)]

\* RefillRequestModal.handleSubmit up to the await
RefillHandleSubmit ==
  /\ form = "refill"
  /\ SubmitEnabled
  /\ LET validationErrors == RefillValidate(formData, now)
     IN  IF HasErrors(validationErrors)
         THEN /\ apiError' = Null
              /\ errors' = validationErrors
              /\ UNCHANGED <<status, inflight>>
         ELSE IF CredentialsMissing("refill", env)
         THEN /\ apiError' = Some(MsgServiceConfiguration)
              /\ status' = "error"
              /\ UNCHANGED <<errors, inflight>>
         ELSE IF Len(RefillRxNumbers(formData)) = 0
         THEN /\ apiError' = Some(MsgNoValidRxNumber)
              /\ status' = "error"
              /\ UNCHANGED <<errors, inflight>>
         ELSE /\ Len(inflight) < MaxInflight
              /\ apiError' = Null
              /\ status' = "submitting"
              /\ inflight' = Append(inflight, RefillPayload(formData, now))
              /\ UNCHANGED errors
  /\ UNCHANGED <<form, isOpen, formData, timers, env, stored, clock, now>>

\* errorData.ErrorCode || errorData.Code
ErrorCodeOf(errorData) == OrElse(errorData.ErrorCode, errorData.Code)

\* the error message for a response that is not ok (Refill)
RefillErrorMessage(http, errorData) ==
  LET code == ErrorCodeOf(errorData)
  IN  IF http = 400 THEN
        CASE code = <<"1000">> -> MsgServiceConfiguration
          [] code = <<"1001">> -> MsgInvalidPharmacyConfiguration
          [] code = <<"1011">> -> MsgLastNameRequired
          [] code = <<"1012">> -> MsgValidDob
          [] code = <<"1013">> -> MsgInvalidTimestamp
          [] code = <<"1014">> -> MsgOneRxNumber
          [] code = <<"1015">> -> MsgInvalidDeliveryOption
          [] code = <<"1016">> -> MsgInvalidRequestSource
          [] code = <<"1019">> -> MsgRxOrPatientRequired
          [] OTHER -> OrElseText(errorData.Message, <<MsgInvalidRequestData>>)[1]
      ELSE IF http = 403 THEN
        CASE code = <<"1004">> -> MsgServiceAuthFailed
          [] code = <<"1018">> -> MsgPharmacyNotAuthorized
          [] OTHER -> MsgAccessDenied
      ELSE IF http = 500 THEN MsgTemporarilyUnavailable
      ELSE MsgRefillProcessing

\* the phrases the Refill catch block lets through
RefillPhrases ==
  { <<"Service", "configuration", "error">>,
    <<"Invalid", "pharmacy", "configuration">>,
    <<"Patient", "last", "name", "is", "required">>,
    <<"Please", "enter", "a", "valid", "date", "of", "birth">>,
    <<"Invalid", "request", "timestamp">>,
    <<"Please", "enter", "at", "least", "one", "prescription", "number">>,
    <<"Invalid", "delivery", "option", "selected">>,
    <<"Invalid", "request", "source">>,
    <<"Prescription", "number", "or", "patient", "ID", "is", "required">>,
    <<"Service", "authentication", "failed">>,
    <<"Pharmacy", "not", "authorized", "for", "this", "service">>,
    <<"Access", "denied">>,
    <<"The", "pharmacy", "system", "is", "temporarily", "unavailable">>,
    <<"Some", "refill", "requests", "failed">>,
    <<"Unexpected", "response", "from", "pharmacy", "system">> }

\* CatchMessage without the list of phrases it lets through
CatchMessageWithoutPhrases(phrases, thrown) ==
  IF ~thrown.isError THEN MsgCouldNotConnect
  ELSE IF Includes(thrown.message, <<"fetch">>)
          \/ Includes(thrown.message, <<"NetworkError">>)
       THEN MsgNetworkFailed
  ELSE MsgUnexpectedError

\* the catch block: the message shown for a thrown value
CatchMessage(phrases, thrown) ==
  IF ~thrown.isError THEN MsgCouldNotConnect
  ELSE IF \E phrase \in phrases : Includes(thrown.message, phrase)
       THEN thrown.message
  ELSE IF Includes(thrown.message, <<"fetch">>)
          \/ Includes(thrown.message, <<"NetworkError">>)
       THEN MsgNetworkFailed
  ELSE MsgUnexpectedError

\* `Rx ${item.RxNo}: ${item.StatusDesc || 'Request failed'}` joined by ', '
RECURSIVE JoinFailed(_)
JoinFailed(items) ==
  IF items = <<>> THEN <<>>
  ELSE <<"Rx", ToString(Head(items).RxNo), ":">>
         \o OrElseText(Head(items).StatusDesc, <<<<"Request", "failed">>>>)[1]
         \o (IF Len(items) > 1 THEN <<",">> ELSE <<>>)
         \o JoinFailed(Tail(items))

\* FailedRequests looking at the first entry only
FailedRequestsFirstOnly(responses) ==
  IF responses # <<>> /\ responses[1].Status # "OK" THEN <<responses[1]>> ELSE <<>>

\* FailedRequests without the filter: every entry is reported
FailedRequestsUnfiltered(responses) == IF responses = <<>> THEN <<>> ELSE responses

\* responses.filter(item => item.Status !== 'OK')
FailedRequests(responses) == SelectSeq(responses, LAMBDA item : item.Status # "OK")

\* RefillRequestModal.handleSubmit after the await: try body and catch block
RefillSettle(o) ==
  LET caught(thrown) == Failed(CatchMessage(RefillPhrases, thrown))
      body == o.body
  IN  IF o.kind = "rejected" THEN caught(o)
      ELSE IF ~ResponseOk(o) THEN
        \* response.json().catch(() => ({})), then the switch reads errorData
        IF body.json = "null" /\ o.http \in {400, 403}
        THEN caught(ErrorOf(MsgTypeError))
        ELSE caught(ErrorOf(RefillErrorMessage(o.http,
                       IF body.json = "object" THEN body ELSE EmptyObject)))
      ELSE IF body.json = "invalid" THEN caught(ErrorOf(MsgJsonSyntaxError))
      ELSE IF body.json = "null" THEN caught(ErrorOf(MsgTypeError))
      ELSE IF body.RxInRefillResponse # <<>> /\ body.RxInRefillResponse[1].isArray
      THEN LET responses == body.RxInRefillResponse[1].items
           IN  IF \E i \in 1..Len(responses) : responses[i].isNull
               THEN caught(ErrorOf(MsgTypeError))
               ELSE LET failedRequests == FailedRequests(responses)
                    IN  IF Len(failedRequests) = 0
                        THEN Succeeded
                        ELSE Failed(<<"Some", "refill", "requests", "failed", ":">>
                                      \o JoinFailed(failedRequests))
      ELSE Failed(MsgUnexpectedResponse)

\* RefillComplete with a catch block that also blanks the form, as the
\* success path of the Contact section does
RefillCompleteBlanking(i, o) ==
  /\ form = "refill"
  /\ i \in 1..Len(inflight)
  /\ inflight' = RemoveAt(inflight, i)
  /\ LET settled == RefillSettle(o)
     IN  /\ status' = settled.status
         /\ IF settled.status = "success"
            THEN errors' = NoErrors /\ UNCHANGED <<apiError, formData>>
            ELSE /\ apiError' = settled.apiError
                 /\ formData' = DefaultFormData("refill")
                 /\ UNCHANGED errors
  /\ UNCHANGED <<form, isOpen, timers, env, stored, clock, now>>

\* RefillRequestModal.handleSubmit from the await on: one outstanding call
\* settles, in any order and whatever the modal shows by then
RefillComplete(i, o) ==
  /\ form = "refill"
  /\ i \in 1..Len(inflight)
  /\ inflight' = RemoveAt(inflight, i)
  /\ LET settled == RefillSettle(o)
     IN  /\ status' = settled.status
         /\ IF settled.status = "success"
            THEN errors' = NoErrors /\ UNCHANGED apiError
            ELSE apiError' = settled.apiError /\ UNCHANGED errors
  /\ UNCHANGED <<form, isOpen, formData, timers, env, stored, clock, now>>

\* ----------------------------------------------------------------- Transfer
\* the request body of submitrxtransferrequest: JSON.stringify(payload)
TransferPayload(fd, time) ==
  [PharmacyNumber |-> "BESTRX_PHARMACY_NUMBER",
   RxNo |-> JsonNumber(NumberOf(fd.rxNumber)),
   RxFillDate |-> fd.rxFillDate,
   TransferToPharmacy |->
     [PharmacyName |-> Trim(fd.transferToPharmacyName),
      Address1 |-> Trim(fd.transferToPharmacyAddress1),
      Address2 |-> Trim(fd.transferToPharmacyAddress2),
      City |-> Trim(fd.transferToPharmacyCity),
      State |-> ToUpperCase(Trim(fd.transferToPharmacyState)),
      Zip |-> Trim(fd.transferToPharmacyZip),
      PharmacyNCPDP |-> Trim(fd.transferToPharmacyNCPDP),
      PharmacyPhoneNumber |-> DigitsOnly(fd.transferToPharmacyPhone),
      PharmacyFaxNumber |-> <<>>,
      ContactName |-> <<>>],
   TransferDate |-> [y |-> time.y, m |-> time.m, d |-> time.d],
   RPHInitial |-> "VVP",
   ContactName |-> "Patient Web Request",
   TransferRxRemark |-> Trim(fd.transferRxRemark),
   UserID |-> "WEB",
   RxTransferType |-> 0]

\* TransferRequestModal.handleSubmit up to the await
TransferHandleSubmit ==
  /\ form = "transfer"
  /\ SubmitEnabled
  /\ LET validationErrors == TransferValidate(formData, now)
     IN  IF HasErrors(validationErrors)
         THEN /\ apiError' = Null
              /\ errors' = validationErrors
              /\ UNCHANGED <<status, inflight>>
         ELSE IF CredentialsMissing("transfer", env)
         THEN /\ apiError' = Some(MsgServiceConfiguration)
              /\ status' = "error"
              /\ UNCHANGED <<errors, inflight>>
         ELSE /\ Len(inflight) < MaxInflight
              /\ apiError' = Null
              /\ status' = "submitting"
              /\ inflight' = Append(inflight, TransferPayload(formData, now))
              /\ UNCHANGED errors
  /\ UNCHANGED <<form, isOpen, formData, timers, env, stored, clock, now>>

\* the error message for a response that is not ok (Transfer)
TransferErrorMessage(http, errorData) ==
  LET code == ErrorCodeOf(errorData)
  IN  IF http = 400 THEN
        CASE code = <<"ERROR0027">> -> MsgPharmacyOrNcpdp
          [] code = <<"ERROR0069">> -> MsgValidFillDate
          [] code = <<"ERROR0070">> -> MsgFillDateFuture
          [] code = <<"ERROR0080">> -> MsgValidRxNumber
          [] OTHER -> OrElseText(errorData.Message, <<MsgInvalidRequestData>>)[1]
      ELSE IF http = 401 THEN
        CASE code = <<"ERROR0003">> -> MsgAuthenticationFailed
          [] OTHER -> MsgAccessDenied
      ELSE IF http = 200 /\ errorData.ErrorCode = <<"ERROR0082">>
      THEN MsgSendingTransfer
      ELSE MsgTransferProcessing

\* the phrases the Transfer catch block lets through
TransferPhrases ==
  { <<"Please", "provide", "pharmacy", "number", "or", "NCPDP", "number">>,
    <<"Please", "provide", "valid", "fill", "date">>,
    <<"Fill", "date", "cannot", "be", "in", "the", "future">>,
    <<"Please", "provide", "valid", "RX", "number">>,
    <<"Authentication", "failed">>,
    <<"Access", "denied">>,
    <<"Error", "while", "sending", "transfer", "Rx", "request">>,
    <<"Transfer", "request", "validation", "failed">>,
    <<"Unexpected", "response", "from", "pharmacy", "system">> }

\* result.Data?.ListOfValidationMessage?.[0]?.Message
\*   || result.Messages?.[0]?.Message || 'Transfer request validation failed.'
ValidationMessage(result) ==
  OrElseText(IF result.Data # <<>> THEN result.Data[1].FirstValidationMessage ELSE <<>>,
             OrElseText(result.Messages, <<MsgTransferValidationFailed>>))[1]

\* result.IsValid === false
IsValidIsFalse(result) == result.IsValid = <<FALSE>>

\* result.Data && result.Data.RxTransferred === true
RxTransferredIsTrue(result) ==
  result.Data # <<>> /\ result.Data[1].RxTransferred = <<TRUE>>

\* TransferRequestModal.handleSubmit after the await: try body and catch block
TransferSettle(o) ==
  LET caught(thrown) == Failed(CatchMessage(TransferPhrases, thrown))
      body == o.body
  IN  IF o.kind = "rejected" THEN caught(o)
      ELSE IF ~ResponseOk(o) THEN
        IF body.json = "null" /\ o.http \in {400, 401}
        THEN caught(ErrorOf(MsgTypeError))
        ELSE caught(ErrorOf(TransferErrorMessage(o.http,
                       IF body.json = "object" THEN body ELSE EmptyObject)))
      ELSE IF body.json = "invalid" THEN caught(ErrorOf(MsgJsonSyntaxError))
      ELSE IF body.json = "null" THEN caught(ErrorOf(MsgTypeError))
      ELSE IF IsValidIsFalse(body) THEN caught(ErrorOf(ValidationMessage(body)))
      ELSE IF RxTransferredIsTrue(body) THEN Succeeded
      ELSE Failed(MsgUnexpectedResponse)

\* TransferComplete with a catch block that sets the message and leaves the
\* status alone
TransferCompleteWithoutFinalStatus(i, o) ==
  /\ form = "transfer"
  /\ i \in 1..Len(inflight)
  /\ inflight' = RemoveAt(inflight, i)
  /\ LET settled == TransferSettle(o)
     IN  IF settled.status = "success"
         THEN status' = "success" /\ errors' = NoErrors /\ UNCHANGED apiError
         ELSE apiError' = settled.apiError /\ UNCHANGED <<status, errors>>
  /\ UNCHANGED <<form, isOpen, formData, timers, env, stored, clock, now>>

\* TransferRequestModal.handleSubmit from the await on
TransferComplete(i, o) ==
  /\ form = "transfer"
  /\ i \in 1..Len(inflight)
  /\ inflight' = RemoveAt(inflight, i)
  /\ LET settled == TransferSettle(o)
     IN  /\ status' = settled.status
         /\ IF settled.status = "success"
            THEN errors' = NoErrors /\ UNCHANGED apiError
            ELSE apiError' = settled.apiError /\ UNCHANGED errors
  /\ UNCHANGED <<form, isOpen, formData, timers, env, stored, clock, now>>

\* ------------------------------------------------- what the services answer
\* one entry of RxInRefillResponse
RxItem(rxNo, st, desc) == [isNull |-> FALSE, RxNo |-> rxNo, Status |-> st, StatusDesc |-> desc]

NullItem == [isNull |-> TRUE, RxNo |-> 0, Status |-> "", StatusDesc |-> <<>>]

\* { RxInRefillResponse: [...] }
RefillResult(items) ==
  [EmptyObject EXCEPT !.RxInRefillResponse = <<[isArray |-> TRUE, items |-> items]>>]

TextNotOnFile == <<"Not", "on", "file">>

TextBadField == <<"Field", "X", "is", "invalid">>

\* the answers of SendRefillRequest the model draws from
RefillOutcomes ==
  { Rejected(TRUE, MsgFailedToFetch),
    Rejected(TRUE, MsgLoadFailed),
    Responded(400, [EmptyObject EXCEPT !.ErrorCode = <<"1011">>]),
    Responded(400, [EmptyObject EXCEPT !.Code = <<"9999">>, !.Message = <<TextBadField>>]),
    Responded(500, InvalidJson),
    Responded(200, InvalidJson),
    Responded(200, EmptyObject),
    Responded(200, [EmptyObject EXCEPT !.RxInRefillResponse = <<[isArray |-> FALSE, items |-> <<>>]>>]),
    Responded(200, RefillResult(<<>>)),
    Responded(200, RefillResult(<<RxItem(12, "OK", <<>>), RxItem(34, "OK", <<>>)>>)),
    Responded(200, RefillResult(<<RxItem(12, "OK", <<>>), RxItem(34, "ERROR", <<TextNotOnFile>>)>>)),
    Responded(200, RefillResult(<<RxItem(12, "OK", <<>>), NullItem>>)) }

\* { IsValid, Data: { RxTransferred, ListOfValidationMessage }, Messages }
TransferData(rxTransferred, firstMessage) ==
  <<[RxTransferred |-> rxTransferred, FirstValidationMessage |-> firstMessage]>>

\* the answers of submitrxtransferrequest the model draws from
TransferOutcomes ==
  { Rejected(TRUE, MsgFailedToFetch),
    Responded(400, [EmptyObject EXCEPT !.ErrorCode = <<"ERROR0069">>]),
    Responded(401, EmptyObject),
    Responded(500, InvalidJson),
    Responded(200, InvalidJson),
    Responded(200, JsonNull),
    Responded(200, [EmptyObject EXCEPT !.IsValid = <<FALSE>>]),
    Responded(200, [EmptyObject EXCEPT !.IsValid = <<FALSE>>,
                                       !.Data = TransferData(<<TRUE>>, <<TextBadField>>)]),
    Responded(200, [EmptyObject EXCEPT !.IsValid = <<TRUE>>,
                                       !.Data = TransferData(<<TRUE>>, <<>>)]),
    Responded(200, [EmptyObject EXCEPT !.Data = TransferData(<<TRUE>>, <<>>)]),
    Responded(200, [EmptyObject EXCEPT !.ErrorCode = <<"ERROR0082">>,
                                       !.IsValid = <<TRUE>>,
                                       !.Data = TransferData(<<TRUE>>, <<>>)]),
    Responded(200, [EmptyObject EXCEPT !.ErrorCode = <<"ERROR0082">>]),
    Responded(200, [EmptyObject EXCEPT !.IsValid = <<TRUE>>]),
    Responded(200, [EmptyObject EXCEPT !.IsValid = <<TRUE>>,
                                       !.Data = TransferData(<<FALSE>>, <<>>)]) }

\* an outstanding SendRefillRequest call settles
RefillSubmitSettles == \E i \in 1..Len(inflight), o \in RefillOutcomes : RefillComplete(i, o)

\* an outstanding submitrxtransferrequest call settles
TransferSubmitSettles == \E i \in 1..Len(inflight), o \in TransferOutcomes : TransferComplete(i, o)

\* -------------------------------------------------------------- specification
Next ==
  \/ OpenModal
  \/ CloseModal
  \/ ResetTimerFires
  \/ UserEdits
  \/ ContactHandleSubmit
  \/ ContactSubmitResolves
  \/ SplashHandleSubmit
  \/ SplashSubmitResolves
  \/ WaitlistHandleSubmit
  \/ clearWaitlistData
  \/ RefillHandleSubmit
  \/ RefillSubmitSettles
  \/ TransferHandleSubmit
  \/ TransferSubmitSettles

Spec == Init /\ [][Next]_vars

\* ------------------------------------------- the adapters, answer by answer
\* The refill and transfer adapters on a form that is open and filled in,
\* against every kind of answer the handlers distinguish: each code of the
\* two tables, codes outside them, each HTTP status branch, each rejection
\* text a browser gives and each shape of a 200 body.
RefillCodes400 == {"1000", "1001", "1011", "1012", "1013", "1014", "1015", "1016", "1019"}

RefillCodes403 == {"1004", "1018"}

TransferCodes400 == {"ERROR0027", "ERROR0069", "ERROR0070", "ERROR0080"}

TransferCodes401 == {"ERROR0003"}

\* what a rejected fetch throws: a TypeError whose text is the browser's
RejectedFetches ==
  { Rejected(TRUE, MsgFailedToFetch),
    Rejected(TRUE, MsgLoadFailed),
    Rejected(TRUE, MsgFirefoxNetworkError) }

RefillAnswers ==
  RefillOutcomes \cup RejectedFetches
    \cup { Responded(400, [EmptyObject EXCEPT !.ErrorCode = <<c>>]) : c \in RefillCodes400 }
    \cup { Responded(403, [EmptyObject EXCEPT !.ErrorCode = <<c>>]) : c \in RefillCodes403 }
    \cup { Responded(400, [EmptyObject EXCEPT !.Code = <<"1012">>]),
           Responded(400, [EmptyObject EXCEPT !.ErrorCode = <<"9999">>]),
           Responded(400, EmptyObject),
           Responded(400, InvalidJson),
           Responded(403, [EmptyObject EXCEPT !.ErrorCode = <<"9999">>]),
           Responded(404, EmptyObject),
           Responded(200, RefillResult(<<RxItem(12, "ERROR", <<>>)>>)),
           Responded(200, RefillResult(<<RxItem(12, "ERROR", <<<<>>>>), RxItem(34, "OK", <<>>),
                                         RxItem(56, "FAILED", <<TextNotOnFile>>)>>)),
           Responded(200, RefillResult(<<RxItem(12, "ok", <<TextBadField>>),
                                         RxItem(34, "ERROR", <<TextNotOnFile>>)>>)) }

TransferAnswers ==
  TransferOutcomes \cup RejectedFetches
    \cup { Responded(400, [EmptyObject EXCEPT !.ErrorCode = <<c>>]) : c \in TransferCodes400 }
    \cup { Responded(401, [EmptyObject EXCEPT !.ErrorCode = <<c>>]) : c \in TransferCodes401 }
    \cup { Responded(400, [EmptyObject EXCEPT !.Code = <<"ERROR0070">>]),
           Responded(400, [EmptyObject EXCEPT !.ErrorCode = <<"ERROR9999">>]),
           Responded(400, [EmptyObject EXCEPT !.ErrorCode = <<"ERROR9999">>,
                                              !.Message = <<TextBadField>>]),
           Responded(400, EmptyObject),
           Responded(400, InvalidJson),
           Responded(404, EmptyObject) }

\* texts typed into the prescriptionNumbers box
RxThree == <<"1", "2", "3", ",", " ", "4", "5", "6", " ", "7", "8", "9">>

RxWord == <<"1", "2", "3", ",", " ", "a", "b", "c">>

RxComma == <<",">>

RxPadded == <<" ", "1", "2", " ", ",", ",", " ", "3", "4", " ">>

RxInfinity == <<"1", "2", ",", " ", "I", "n", "f", "i", "n", "i", "t", "y">>

RxNegative == <<"-", "5">>

RxDecimal == <<"1", ".", "5">>

RxZero == <<"0">>

RxTexts ==
  {RxOk, RxBad, RxThree, RxWord, RxComma, RxPadded, RxInfinity, RxNegative, RxDecimal, RxZero}

\* a refill form filled in so that validate() passes
FilledRefill ==
  [DefaultFormData("refill") EXCEPT !.patientName = NameJo, !.dob = DatePast,
                                    !.phone = PhoneOk, !.prescriptionNumbers = RxOk,
                                    !.consent = TRUE]

\* a transfer form filled in so that validate() passes
FilledTransfer ==
  [DefaultFormData("transfer") EXCEPT
     !.rxNumber = <<"7">>, !.rxFillDate = DatePast,
     !.transferToPharmacyName = TextHi, !.transferToPharmacyPhone = PhoneOk,
     !.transferToPharmacyAddress1 = TextHi, !.transferToPharmacyCity = TextHi,
     !.transferToPharmacyState = <<"o", "h">>,
     !.transferToPharmacyZip = <<"4", "3", "2", "1", "5">>,
     !.consent = TRUE]

InitApi ==
  /\ form \in {"refill", "transfer"}
  /\ isOpen = TRUE
  /\ formData \in (IF form = "refill"
                   THEN {[FilledRefill EXCEPT !.prescriptionNumbers = v] : v \in RxTexts}
                   ELSE {[FilledTransfer EXCEPT !.rxFillDate = v] :
                           v \in {DatePast, DateOld}})
  /\ errors = NoErrors
  /\ status = "idle"
  /\ apiError = Null
  /\ timers = 0
  /\ inflight = <<>>
  /\ env \in {Credentials} \cup {Credentials \ {c} : c \in CredentialsRead(form)}
  /\ stored = <<>>
  /\ clock = 0
  /\ now \in NowValues

\* the outstanding SendRefillRequest call is answered
RefillAnswered == \E i \in 1..Len(inflight), o \in RefillAnswers : RefillComplete(i, o)

\* the outstanding submitrxtransferrequest call is answered
TransferAnswered == \E i \in 1..Len(inflight), o \in TransferAnswers : TransferComplete(i, o)

NextApi ==
  \/ RefillHandleSubmit
  \/ RefillAnswered
  \/ TransferHandleSubmit
  \/ TransferAnswered

SpecApi == InitApi /\ [][NextApi]_vars

\* ------------------------------------------- the validators, input by input
\* validate() of the contact, refill and transfer forms on forms that are
\* filled in, over dates around today and around two years ago, at several
\* times of day, and over messages around the 500-character limit.
\* the value of <input type="date">: yyyy-mm-dd
DateText(y, m, d) ==
  ToDigits(y) \o <<"-">> \o (IF m < 10 THEN <<"0">> ELSE <<>>) \o ToDigits(m)
              \o <<"-">> \o (IF d < 10 THEN <<"0">> ELSE <<>>) \o ToDigits(d)

\* what new Date() returns: a local date and the milliseconds since midnight
DateNows ==
  { [y |-> t[1], m |-> t[2], d |-> t[3], ms |-> ms] :
      t \in {<<2024, 3, 15>>, <<2024, 2, 29>>, <<2024, 1, 1>>, <<2023, 12, 31>>},
      ms \in {0, 1, 43200000, 86399999} }

\* the days picked in the date inputs
DateDays ==
  { <<2024, 3, 16>>, <<2024, 3, 15>>, <<2024, 3, 14>>, <<2024, 3, 1>>, <<2024, 2, 29>>,
    <<2024, 1, 2>>, <<2024, 1, 1>>, <<2023, 12, 31>>, <<2025, 1, 1>>,
    <<2022, 3, 16>>, <<2022, 3, 15>>, <<2022, 3, 14>>, <<2022, 3, 1>>, <<2022, 2, 28>>,
    <<2022, 1, 1>>, <<2021, 12, 31>>, <<2021, 12, 30>>, <<2020, 1, 1>> }

DateTexts == { DateText(t[1], t[2], t[3]) : t \in DateDays }

Text500 == [i \in 1..500 |-> "x"]

Text501 == [i \in 1..501 |-> "x"]

Text500Padded == <<" ">> \o Text500 \o <<" ", " ">>

\* texts typed into the message box
MessageTexts == {<<>>, <<" ", " ">>, TextHi, Text500, Text501, Text500Padded}

\* texts typed into the rxNumber box
RxNumberTexts ==
  { <<"7">>, <<"0">>, <<"-", "5">>, <<"1", ".", "5">>, <<"a", "b">>, <<" ", "4", "2", " ">> }

\* a contact form filled in so that validate() passes
FilledContact ==
  [DefaultFormData("contact") EXCEPT !.name = NameJo, !.phone = PhoneOk,
                                     !.email = EmailLower, !.message = TextHi,
                                     !.consent = TRUE]

InitValidate ==
  /\ form \in {"contact", "refill", "transfer"}
  /\ isOpen = TRUE
  /\ formData \in
       CASE form = "contact" ->
              { [FilledContact EXCEPT !.reason = r, !.message = m] :
                  r \in {"general", "new", "transfer", "refill", "rpm"}, m \in MessageTexts }
         [] form = "refill" ->
              { [FilledRefill EXCEPT !.dob = v] : v \in DateTexts }
         [] form = "transfer" ->
              { [FilledTransfer EXCEPT !.rxFillDate = v] : v \in DateTexts }
                \cup { [FilledTransfer EXCEPT !.rxNumber = v] : v \in RxNumberTexts }
  /\ errors = NoErrors
  /\ status = "idle"
  /\ apiError = Null
  /\ timers = 0
  /\ inflight = <<>>
  /\ env = Credentials
  /\ stored = <<>>
  /\ clock = 0
  /\ now \in (IF form = "contact" THEN NowValues ELSE DateNows)

NextValidate ==
  \/ ContactHandleSubmit
  \/ RefillHandleSubmit
  \/ TransferHandleSubmit

SpecValidate == InitValidate /\ [][NextValidate]_vars

\* -------------------------------------------------------------- properties
\* what the mounted form's validate() returns on the current inputs
ValidatorResult ==
  CASE form = "contact"  -> ContactValidate(formData)
    [] form = "refill"   -> RefillValidate(formData, now)
    [] form = "transfer" -> TransferValidate(formData, now)
    [] form = "waitlist" -> WaitlistValidate(formData, stored)
    [] form = "splash"   -> SplashValidate(formData)

\* the mounted form's onSubmit handler runs (up to its await, if it has one)
SubmitStep ==
  \/ ContactHandleSubmit
  \/ RefillHandleSubmit
  \/ TransferHandleSubmit
  \/ WaitlistHandleSubmit
  \/ SplashHandleSubmit

\* C1: in each of the five forms, a submit whose validator returns a
\* non-empty error map leaves the status where it was, sets the error map to
\* the validator's result and performs no adapter action (no call goes in
\* flight, the waitlist store is not written); and the status becomes
\* 'submitting' only by a submit whose validator returned no errors.
C1_InvalidSubmitIsRefused ==
  [][ /\ (SubmitStep /\ DOMAIN ValidatorResult # {})
           => /\ status' = status
              /\ errors' = ValidatorResult
              /\ inflight' = inflight
              /\ stored' = stored
      /\ (status' = "submitting" /\ status # "submitting")
           => (SubmitStep /\ DOMAIN ValidatorResult = {})
    ]_vars

\* an invalid transfer form was submitted: the errors are shown, the form is
\* idle and nothing is in flight
C1_Witness ==
  /\ form = "transfer"
  /\ DOMAIN errors # {}
  /\ errors = TransferValidate(formData, now)
  /\ status = "idle"
  /\ inflight = <<>>

\* C2: at most one submission of the form is in flight at any time, under
\* every interleaving of edits, submits, closes, reopens, the reset timer
\* and completions.
C2_AtMostOneInFlight == Len(inflight) <= 1

\* formData.consent is true (a form without a consent input never has it)
ConsentGiven == "consent" \in DOMAIN formData /\ formData.consent

C4_MissingCredentialStopsRequest ==
  [][ /\ ( /\ form \in {"refill", "transfer"}
           /\ SubmitStep
           /\ DOMAIN ValidatorResult = {}
           /\ ~(CredentialsRead(form) \subseteq env) )
           => /\ status' = "error"
              /\ apiError' = <<MsgServiceConfiguration>>
              /\ inflight' = inflight
      /\ (form \in {"refill", "transfer"} /\ Len(inflight') > Len(inflight))
           => CredentialsRead(form) \subseteq env
    ]_vars

\* a valid refill form was submitted in a build without the API key
C4_Witness ==
  /\ form = "refill"
  /\ "BESTRX_API_KEY" \notin env
  /\ DOMAIN RefillValidate(formData, now) = {}
  /\ status = "error"
  /\ apiError = <<MsgServiceConfiguration>>
  /\ inflight = <<>>

\* C5: in the transfer form, every response with HTTP status 200 whose
\* payload carries ErrorCode "ERROR0082" ends the submission in status
\* 'error', whatever the other payload fields are.
C5_Error0082IsAFailure ==
  [][ (form = "transfer" /\ Len(inflight') < Len(inflight)) =>
      \A i \in 1..Len(inflight) : \A o \in TransferOutcomes :
        ( /\ TransferComplete(i, o)
          /\ o.kind = "responded"
          /\ o.http = 200
          /\ o.body.json = "object"
          /\ o.body.ErrorCode = <<"ERROR0082">> )
          => status' = "error"
    ]_vars

\* C6: the transfer form reaches 'success' only on an HTTP-ok
\* response whose payload has IsValid equal to true and Data.RxTransferred
\* equal to true; a payload in which IsValid is missing or not true never
\* yields 'success'.
C6_SuccessNeedsIsValidTrue ==
  [][ (form = "transfer" /\ Len(inflight') < Len(inflight)) =>
      \A i \in 1..Len(inflight) : \A o \in TransferOutcomes :
        (TransferComplete(i, o) /\ status' = "success")
          => /\ o.kind = "responded"
             /\ o.http \in 200..299
             /\ o.body.json = "object"
             /\ o.body.IsValid = <<TRUE>>
             /\ o.body.Data # <<>>
             /\ o.body.Data[1].RxTransferred = <<TRUE>>
    ]_vars

\* C7: the refill form reaches 'success' only on an HTTP-ok response whose
\* payload holds the list RxInRefillResponse with every entry's Status equal
\* to "OK"; a response in which the list is absent, or in which some entry
\* has another Status, ends in 'error'.
C7_SuccessNeedsEveryEntryOk ==
  [][ (form = "refill" /\ Len(inflight') < Len(inflight)) =>
      \A i \in 1..Len(inflight) : \A o \in RefillOutcomes :
        RefillComplete(i, o) =>
          LET listed  == /\ o.kind = "responded"
                         /\ o.body.json = "object"
                         /\ o.body.RxInRefillResponse # <<>>
                         /\ o.body.RxInRefillResponse[1].isArray
              entries == o.body.RxInRefillResponse[1].items
              everyOk == \A n \in 1..Len(entries) :
                            ~entries[n].isNull /\ entries[n].Status = "OK"
          IN  /\ status' = "success" => (o.http \in 200..299 /\ listed /\ everyOk)
              /\ (~listed \/ ~everyOk) => status' = "error"
    ]_vars

\* a refill request for two prescriptions was answered and the form shows
\* the confirmation
C7_Witness ==
  /\ form = "refill"
  /\ status = "success"
  /\ formData.prescriptionNumbers = RxOk
  /\ inflight = <<>>

\* C8: the persisted waitlist never holds two entries whose emails are equal
\* ignoring case.
C8_NoTwoEntriesShareAnEmail ==
  \A i, j \in 1..Len(stored) :
     i # j => ToLowerCase(stored[i].email) # ToLowerCase(stored[j].email)

\* A@X.c is on the waitlist and a submit of a@x.c was turned away: the
\* store still holds the one entry
C8_Witness ==
  /\ form = "waitlist"
  /\ Len(stored) = 1
  /\ stored[1].email = EmailUpper
  /\ formData.email = EmailLower
  /\ "email" \in DOMAIN errors
  /\ errors["email"] = "This email address is already on the waitlist."

\* C9: a waitlist submit whose trimmed email is already stored (ignoring
\* case) is turned away with an error on the email field and leaves the
\* status as it was; and on every email that passes the format rule the
\* check made by validate and the check made by saveWaitlistEntry agree.
C9_DuplicateIsAFieldError ==
  [][ /\ ( /\ WaitlistHandleSubmit
           /\ TestEmail(formData.email)
           /\ {"name", "phone"} \cap DOMAIN ValidatorResult = {}
           /\ \E n \in 1..Len(stored) :
                 ToLowerCase(stored[n].email) = ToLowerCase(Trim(formData.email)) )
           => ("email" \in DOMAIN errors' /\ status' = status)
      /\ (WaitlistHandleSubmit /\ TestEmail(formData.email))
           => (isEmailOnWaitlist(stored, formData.email)
                 <=> HasExistingEntry(stored, WaitlistEntryOf(formData)))
    ]_vars

\* C10: the status changes only along idle -> submitting, submitting ->
\* success, submitting -> error, error -> submitting, and the reset to idle.
\* A handler that sets 'submitting' and then its outcome before it returns
\* (the waitlist save, a missing credential) counts as passing through
\* 'submitting'.
C10_StatusFollowsTheStateMachine ==
  [][ \/ status' = status
      \/ status' = "idle"
      \/ status \in {"idle", "error"} /\ status' = "submitting"
      \/ status = "submitting" /\ status' \in {"success", "error"}
      \/ SubmitStep /\ status \in {"idle", "error"} /\ status' \in {"success", "error"}
    ]_vars

\* C11: the reset scheduled by closing a modal runs only while the modal is
\* closed: a firing of the reset callback under an open modal changes none of
\* the fields, the errors and the status.
C11_ResetOnlyWhileClosed ==
  [][ (ResetTimerFires /\ isOpen)
        => (formData' = formData /\ errors' = errors /\ status' = status) ]_vars

\* C12: in the refill and transfer forms every step that ends a submission
\* in status 'error' (missing credential, rejected fetch, HTTP error status,
\* vendor error code, partial failure, unexpected response shape) leaves
\* every field of formData as it was.
C12_FailureKeepsTheFields ==
  [][ ( /\ form \in {"refill", "transfer"}
        /\ status' = "error"
        /\ (status # "error" \/ apiError' # apiError \/ inflight' # inflight) )
        => formData' = formData ]_vars

\* a refill submission has failed on the network and the form still holds
\* what was typed
C12_Witness ==
  /\ form = "refill"
  /\ status = "error"
  /\ apiError = Some(MsgNetworkFailed)
  /\ inflight = <<>>
  /\ formData.patientName = NameJo
  /\ formData.prescriptionNumbers = RxOk
  /\ formData.consent

\* C13: in the refill and transfer forms, whenever the status is 'error' an
\* API error message is set: no reachable state has status 'error' and the
\* message null or empty.
C13_ErrorAlwaysHasAMessage ==
  (form \in {"refill", "transfer"} /\ status = "error")
     => (apiError # Null /\ apiError[1] # <<>>)

\* the answer is HTTP 400 with an error code the form's table does not list
UnlistedCode400(o, listed) ==
  /\ o.kind = "responded"
  /\ o.http = 400
  /\ o.body.json = "object"
  /\ ErrorCodeOf(o.body) # <<>>
  /\ ErrorCodeOf(o.body)[1] \notin listed

\* C14: when a refill or transfer request is answered with HTTP 400 and an
\* error code outside the form's table, the form ends in status 'error'
\* showing 'Invalid request data. Please check your information.'.
C14_UnlistedCodeShowsInvalidRequest ==
  [][ Len(inflight') < Len(inflight)
        => \A i \in 1..Len(inflight) :
             /\ \A o \in RefillAnswers :
                  (UnlistedCode400(o, RefillCodes400) /\ RefillComplete(i, o))
                     => (status' = "error" /\ apiError' = Some(MsgInvalidRequestData))
             /\ \A o \in TransferAnswers :
                  (UnlistedCode400(o, TransferCodes400) /\ TransferComplete(i, o))
                     => (status' = "error" /\ apiError' = Some(MsgInvalidRequestData))
    ]_vars

\* the answer carries HTTP status http and an error code the table lists
\* under that status
ListedCode(o, http, listed) ==
  /\ o.kind = "responded"
  /\ o.http = http
  /\ o.body.json = "object"
  /\ ErrorCodeOf(o.body) # <<>>
  /\ ErrorCodeOf(o.body)[1] \in listed

\* the messages that name no particular cause
GenericMessages ==
  {MsgInvalidRequestData, MsgAccessDenied, MsgUnexpectedError, MsgNetworkFailed,
   MsgCouldNotConnect, MsgRefillProcessing, MsgTransferProcessing}

\* C15: for every error code a form's table lists (refill: nine codes under
\* HTTP 400 and two under 403; transfer: four under 400 and one under 401)
\* the form ends in status 'error' showing the sentence the table assigns
\* to the code, which is none of the generic messages: the catch block does
\* not replace it.
C15_ListedCodeShowsItsSentence ==
  [][ Len(inflight') < Len(inflight)
        => \A i \in 1..Len(inflight) :
             /\ \A o \in RefillAnswers :
                  ( /\ \/ ListedCode(o, 400, RefillCodes400)
                       \/ ListedCode(o, 403, RefillCodes403)
                    /\ RefillComplete(i, o) )
                     => /\ status' = "error"
                        /\ apiError' = Some(RefillErrorMessage(o.http, o.body))
                        /\ apiError'[1] \notin GenericMessages
             /\ \A o \in TransferAnswers :
                  ( /\ \/ ListedCode(o, 400, TransferCodes400)
                       \/ ListedCode(o, 401, TransferCodes401)
                    /\ TransferComplete(i, o) )
                     => /\ status' = "error"
                        /\ apiError' = Some(TransferErrorMessage(o.http, o.body))
                        /\ apiError'[1] \notin GenericMessages
    ]_vars

\* a transfer request was answered 401 ERROR0003 and the form shows the
\* sentence of that code
C15_Witness ==
  /\ form = "transfer"
  /\ status = "error"
  /\ inflight = <<>>
  /\ apiError = Some(MsgAuthenticationFailed)

\* C16: whenever the fetch of a refill or transfer submission rejects,
\* whatever the text of the rejection, the form ends in status 'error' with
\* a connectivity message ('Network connection failed...' or 'Could not
\* connect to the pharmacy system.').
C16_RejectedFetchShowsConnectivity ==
  [][ Len(inflight') < Len(inflight)
        => \A i \in 1..Len(inflight) : \A o \in RejectedFetches :
             (RefillComplete(i, o) \/ TransferComplete(i, o))
                => /\ status' = "error"
                   /\ apiError' \in {Some(MsgNetworkFailed), Some(MsgCouldNotConnect)}
    ]_vars

\* C17: in every form, every reachable state with status 'success' has an
\* empty error map.
C17_SuccessShowsNoFieldErrors == status = "success" => DOMAIN errors = {}

\* C18: in the contact, refill, transfer and waitlist forms, an edit of
\* field k stores the new value, removes the error entry of k if there is
\* one, and leaves the error entries of every other field, the status and
\* the values of every other field as they were.
C18_EditClearsOnlyItsOwnError ==
  [][ (formData' # formData /\ form \in {"contact", "refill", "transfer", "waitlist"})
        => \A k \in Fields(form) : \A v \in Inputs(form, k) :
             handleChange(k, v)
                => /\ formData'[k] = v
                   /\ k \notin DOMAIN errors'
                   /\ status' = status
                   /\ \A j \in Fields(form) \ {k} :
                        /\ formData'[j] = formData[j]
                        /\ j \in DOMAIN errors' <=> j \in DOMAIN errors
                        /\ j \in DOMAIN errors => errors'[j] = errors[j]
    ]_vars

\* the contact form after a refused submit and an edit of the phone: the
\* phone holds a value validate() would refuse and shows no error, while the
\* errors of the fields below it are still shown
C18_Witness ==
  /\ form = "contact"
  /\ formData.phone = PhoneBad
  /\ "phone" \notin DOMAIN errors
  /\ {"email", "message", "consent"} \subseteq DOMAIN errors
  /\ "phone" \in DOMAIN ContactValidate(formData)

\* the answer is HTTP-ok with a list of entries of which at least one has a
\* Status other than "OK"
PartialFailure(o) ==
  /\ o.kind = "responded"
  /\ ResponseOk(o)
  /\ o.body.json = "object"
  /\ o.body.RxInRefillResponse # <<>>
  /\ o.body.RxInRefillResponse[1].isArray
  /\ \A n \in 1..Len(o.body.RxInRefillResponse[1].items) :
        ~o.body.RxInRefillResponse[1].items[n].isNull
  /\ \E n \in 1..Len(o.body.RxInRefillResponse[1].items) :
        o.body.RxInRefillResponse[1].items[n].Status # "OK"

\* the prescription numbers a message names: the word after each "Rx"
RECURSIVE NamedRx(_)
NamedRx(message) ==
  IF Len(message) < 2 THEN <<>>
  ELSE IF Head(message) = "Rx"
       THEN <<message[2]>> \o NamedRx(Tail(Tail(message)))
       ELSE NamedRx(Tail(message))

\* C19: when a refill answer is HTTP-ok and its list holds at least one
\* entry whose Status is not "OK", the form ends in status 'error' and the
\* message names the prescription numbers of exactly the entries that are
\* not OK, in order, each followed by its StatusDesc or by 'Request failed'.
C19_PartialFailureNamesTheFailedRx ==
  [][ (form = "refill" /\ Len(inflight') < Len(inflight))
        => \A i \in 1..Len(inflight) : \A o \in RefillAnswers :
             (PartialFailure(o) /\ RefillComplete(i, o))
                => LET items  == o.body.RxInRefillResponse[1].items
                       notOk  == {n \in 1..Len(items) : items[n].Status # "OK"}
                       named  == NamedRx(apiError'[1])
                       reason(n) == IF items[n].StatusDesc # <<>> /\ items[n].StatusDesc[1] # <<>>
                                    THEN items[n].StatusDesc[1]
                                    ELSE <<"Request", "failed">>
                   IN  /\ status' = "error"
                       /\ apiError' # Null
                       /\ Len(named) = Cardinality(notOk)
                       /\ \A n \in notOk :
                            Includes(apiError'[1],
                                     <<"Rx", ToString(items[n].RxNo), ":">> \o reason(n))
                       /\ \A n \in 1..Len(items) :
                            n \notin notOk
                              => \A x \in 1..Len(named) : named[x] # ToString(items[n].RxNo)
    ]_vars

\* three entries came back, the first and the third not OK, and the message
\* names those two
C19_Witness ==
  /\ form = "refill"
  /\ status = "error"
  /\ apiError # Null
  /\ NamedRx(apiError[1]) = <<"12", "56">>
  /\ Includes(apiError[1], <<"Rx", "12", ":", "Request", "failed", ",">>)
  /\ Includes(apiError[1], <<"Rx", "56", ":">> \o TextNotOnFile)

\* the tokens of a prescriptionNumbers text: what lies between runs of
\* commas and white space
RxTokens(text) ==
  SelectSeq(SplitRuns(text, WhiteSpace \cup {","}), LAMBDA token : token # <<>>)

\* C20: a refill submit accepts the prescriptionNumbers field exactly when
\* it has at least one token, every token is numeric and the field is at
\* most 1000 characters long; when the request is sent its body holds one
\* RxNo per token, in order, each a number with the value of its token;
\* and a refused field sends nothing.
C20_OneNumericRxNoPerToken ==
  [][ RefillHandleSubmit
        => LET text     == formData.prescriptionNumbers
               tokens   == RxTokens(text)
               accepted == "prescriptionNumbers" \notin DOMAIN RefillValidate(formData, now)
               emitted  == inflight'[Len(inflight')].RxInRefillRequest
           IN  /\ accepted <=> /\ Len(tokens) >= 1
                               /\ \A n \in 1..Len(tokens) : ~IsNaN(NumberOf(tokens[n]))
                               /\ Len(text) <= 1000
               /\ ~accepted => inflight' = inflight
               /\ inflight' # inflight
                    => /\ Len(emitted) = Len(tokens)
                       /\ \A n \in 1..Len(tokens) :
                            emitted[n].RxNo = <<NumberOf(tokens[n])>>
    ]_vars

\* the calendar day a yyyy-mm-dd text names, as <<year, month, day>>
DayOf(text) ==
  <<DigitsValue(SubSeq(text, 1, 4)), DigitsValue(SubSeq(text, 6, 7)),
    DigitsValue(SubSeq(text, 9, 10))>>

\* the current local date, as <<year, month, day>>
NowDay == <<now.y, now.m, now.d>>

\* calendar day a is strictly after calendar day b
DayAfter(a, b) ==
  \/ a[1] > b[1]
  \/ a[1] = b[1] /\ a[2] > b[2]
  \/ a[1] = b[1] /\ a[2] = b[2] /\ a[3] > b[3]

\* C21: the refill date-of-birth validator and the transfer fill-date
\* validator report the future-date error exactly for the dates strictly
\* after the current local date, at any time of day.
C21_FutureDatesAndOnlyThoseAreRefused ==
  [][ /\ RefillHandleSubmit
           => ( ( /\ "dob" \in DOMAIN errors'
                  /\ errors'["dob"] = "Date of birth cannot be in the future." )
                <=> DayAfter(DayOf(formData.dob), NowDay) )
      /\ TransferHandleSubmit
           => ( ( /\ "rxFillDate" \in DOMAIN errors'
                  /\ errors'["rxFillDate"] = "Fill date cannot be in the future." )
                <=> DayAfter(DayOf(formData.rxFillDate), NowDay) )
    ]_vars

\* a refill form whose date of birth is today was submitted in the last
\* millisecond of the day and went through
C21_Witness ==
  /\ form = "refill"
  /\ now.ms = 86399999
  /\ DayOf(formData.dob) = NowDay
  /\ status = "submitting"
  /\ errors = NoErrors

\* C22: the transfer fill-date validator reports the 'more than 2 years
\* ago' error exactly when the fill date is a calendar day before the day
\* two years before today, so the day exactly two years before today is
\* accepted, whatever the time of day at which validation runs.
C22_TwoYearLimitIsByCalendarDay ==
  [][ TransferHandleSubmit
        => ( ( /\ "rxFillDate" \in DOMAIN errors'
               /\ errors'["rxFillDate"] = "Fill date cannot be more than 2 years ago." )
             <=> DayAfter(<<now.y - 2, now.m, now.d>>, DayOf(formData.rxFillDate)) )
    ]_vars

\* C23: the stored waitlist is append-only: every step leaves the entries
\* already stored unchanged and in place, and a step that changes the store
\* adds exactly one entry, with status 'active', at the end; a save that
\* fails changes nothing.
C23_WaitlistIsAppendOnly ==
  [][ /\ Len(stored') >= Len(stored)
      /\ SubSeq(stored', 1, Len(stored)) = stored
      /\ stored' # stored
           => /\ Len(stored') = Len(stored) + 1
              /\ stored'[Len(stored')].status = "active"
      /\ (WaitlistHandleSubmit /\ status' = "error") => stored' = stored
    ]_vars

\* C24: no two entries in the waitlist store have the same id.
C24_WaitlistIdsAreUnique ==
  \A i \in 1..Len(stored) : \A j \in 1..Len(stored) :
     i # j => stored[i].id # stored[j].id

\* C25: a contact submit reports the "more details" error exactly when the
\* message is empty after trimming and the reason is new, transfer or refill;
\* it reports the length error for every message of more than 500 characters
\* and for no message of at most 500 characters.
C25_MessageRequiredAndCappedAt500 ==
  [][ ContactHandleSubmit
        => /\ ( /\ "message" \in DOMAIN errors'
                /\ errors'["message"] = "Please provide more details for your request." )
              <=> ( /\ formData.reason \in {"new", "transfer", "refill"}
                    /\ Trim(formData.message) = <<>> )
           /\ Len(formData.message) > 500
                => /\ status' # "submitting"
                   /\ "message" \in DOMAIN errors'
           /\ ( /\ "message" \in DOMAIN errors'
                /\ errors'["message"] = "Message must be less than 500 characters." )
                => Len(formData.message) > 500
    ]_vars

\* C26: a refill submit that sends a request sends DeliveryOption 1 when the
\* form's preferredService is "pickup" at that moment and 2 when it is
\* "delivery", and no request in flight carries any other code.
C26_DeliveryOptionFollowsPreferredService ==
  [][ /\ form = "refill"
        => \A i \in 1..Len(inflight') : inflight'[i].DeliveryOption \in {1, 2}
      /\ (RefillHandleSubmit /\ Len(inflight') > Len(inflight))
           => /\ formData.preferredService \in {"pickup", "delivery"}
              /\ inflight'[Len(inflight')].DeliveryOption
                   = (IF formData.preferredService = "pickup" THEN 1 ELSE 2)
              /\ formData.preferredService = "delivery"
                   => inflight'[Len(inflight')].DeliveryOption = 2
    ]_vars

\* a delivery request is in flight
C26_Witness ==
  /\ form = "refill"
  /\ status = "submitting"
  /\ formData.preferredService = "delivery"
  /\ inflight # <<>>
  /\ inflight[Len(inflight)].DeliveryOption = 2

\* C27: a modal that is closed and whose reset has run (no reset is pending)
\* holds the form that reopening will show: status 'idle', the default field
\* values, an empty error map and no API message, whatever has happened to the
\* requests that were in flight when it was closed.
C27_ClosedAndResetFormIsPristine ==
  (form \in Modals /\ ~isOpen /\ timers = 0)
    => /\ status = "idle"
       /\ formData = DefaultFormData(form)
       /\ errors = NoErrors
       /\ apiError = Null

\* ------------------------------------------------ every call is answered
\* The application under the assumption that no call stays outstanding for
\* ever: fetch settles (it resolves or rejects) and the 1000 ms timers of the
\* mock calls fire.
SpecLive ==
  /\ Init /\ [][Next]_vars
  /\ WF_vars(RefillSubmitSettles)
  /\ WF_vars(TransferSubmitSettles)
  /\ WF_vars(ContactSubmitResolves)
  /\ WF_vars(SplashSubmitResolves)

\* C28: when every call is answered, a form in status 'submitting' eventually
\* leaves it; it leaves it only to 'success' or 'error', by the settling of a
\* call, or to 'idle' by the modal reset; while it is 'submitting' a call is
\* outstanding, and as long as no call settles and no reset runs it stays in
\* 'submitting'.
C28_SubmittingEndsWhenTheCallSettles ==
  /\ [][ (status = "submitting" /\ status' # "submitting")
           => \/ ResetTimerFires /\ status' = "idle"
              \/ Len(inflight') < Len(inflight) /\ status' \in {"success", "error"}
       ]_vars
  /\ [](status = "submitting" => inflight # <<>>)
  /\ (status = "submitting") ~> (status # "submitting")

\* a transfer that was in flight has ended in 'error' with the message of the
\* catch block, and nothing is outstanding any more
C28_Witness ==
  /\ form = "transfer"
  /\ status = "error"
  /\ apiError = Some(MsgUnexpectedResponse)
  /\ inflight = <<>>
  /\ isOpen

\* a serialised RxNo that is a number, above zero, with no fractional part
IsPositiveInteger(rxNo) ==
  /\ rxNo # <<>>
  /\ ~rxNo[1].neg
  /\ rxNo[1].int > 0
  /\ \A d \in 1..Len(rxNo[1].frac) : rxNo[1].frac[d] = "0"

\* C29: every RxNo of every refill request in flight, and the RxNo of every
\* transfer request in flight, is a positive integer.
C29_EverySentRxNoIsAPositiveInteger ==
  \A i \in 1..Len(inflight) :
     /\ form = "refill"
          => \A n \in 1..Len(inflight[i].RxInRefillRequest) :
                IsPositiveInteger(inflight[i].RxInRefillRequest[n].RxNo)
     /\ form = "transfer" => IsPositiveInteger(inflight[i].RxNo)

\* the answer has an entry for the sent RxNo whose Status is "OK"
ConfirmedOk(rxNo, body) ==
  /\ body.json = "object"
  /\ body.RxInRefillResponse # <<>>
  /\ body.RxInRefillResponse[1].isArray
  /\ rxNo # <<>>
  /\ \E k \in 1..Len(body.RxInRefillResponse[1].items) :
        LET item == body.RxInRefillResponse[1].items[k]
        IN  /\ ~item.isNull
            /\ item.Status = "OK"
            /\ Num(FALSE, item.RxNo, <<>>) = rxNo[1]

\* C30: when the answer to a refill request sets the status to 'success',
\* the answer's RxInRefillResponse has an entry with Status "OK" for every
\* RxNo of that request.
C30_SuccessConfirmsEverySentRxNo ==
  [][ (form = "refill" /\ Len(inflight') < Len(inflight) /\ status' = "success")
        => \A i \in 1..Len(inflight) : \A o \in RefillAnswers :
              (RefillSettle(o).status = "success" /\ RefillComplete(i, o))
                => \A n \in 1..Len(inflight[i].RxInRefillRequest) :
                      ConfirmedOk(inflight[i].RxInRefillRequest[n].RxNo, o.body)
    ]_vars

====
